---- MODULE Spec2Model ----
(***************************************************************************)
(* Platform I/O abstraction layer of asyncle: the memory mapping manager   *)
(* (include/platform/mmap_linux.hpp) and the process resource manager      *)
(* (src/platform/process_linux.cpp), modelled over an abstract kernel:     *)
(* a page table for mappings, per-process descriptor tables and pipes.     *)
(***************************************************************************)
EXTENDS Integers, Sequences, FiniteSets, TLC

(***************************************************************************)
(* Bounds of the model.                                                    *)
(***************************************************************************)
\* Number of pages of the modelled address space.
NPages == 3
\* Bytes per page of the modelled machine (sysconf(_SC_PAGESIZE)).
PageSize == 2
\* Regions a caller holds at a time.
MaxRegions == 1
\* Size of a process's descriptor table (RLIMIT_NOFILE).
NFds == 8
\* Bytes a pipe buffers.
PipeCap == 2
\* Length of the message the caller sends to the child's stdin.
MsgLen == 2
\* Width in bits of the modelled machine word (std::size_t).
WordBits == 3
\* Descriptors the file manager's caller can have open at a time.
NFileFds == 2
\* Largest size of the modelled file, in bytes.
MaxFile == 3
\* Owning file wrapper objects of the modelled program.
NWrappers == 2
\* Bytes of the file that record locks are taken on.
NLockBytes == 2
\* Largest errno value handed to the translation tables.
MaxErrno == 133

(***************************************************************************)
(* errno values used by the translation tables (Linux numbering).          *)
(***************************************************************************)
EPERM == 1
ENOENT == 2
ESRCH == 3
EINTR == 4
E2BIG == 7
EBADF == 9
ECHILD == 10
EAGAIN == 11
ENOMEM == 12
EACCES == 13
EFAULT == 14
EBUSY == 16
EEXIST == 17
ENODEV == 19
ENOTDIR == 20
EISDIR == 21
EFBIG == 27
ENOSPC == 28
ESPIPE == 29
EROFS == 30
EINVAL == 22
ENFILE == 23
EMFILE == 24
EPIPE == 32
ENOSYS == 38
ELOOP == 40
EADDRINUSE == 98

(***************************************************************************)
(*                      MEMORY MAPPING MANAGER                             *)
(***************************************************************************)
VARIABLES
    vm,         \* set of page numbers currently mapped in the address space
    vmLocked,   \* set of page numbers currently locked in memory
    hugeAvail,  \* whether the kernel has huge pages to hand out
    mfd,        \* the file descriptor the caller passes to map_memory
    mreq,       \* the memory_request the caller uses
    regions,    \* memory_region values the caller holds
    released,   \* copy the caller kept of the region it unmapped last
    mres        \* record of the last memory-manager call

mmapVars == <<vm, vmLocked, hugeAvail, mfd, mreq, regions, released, mres>>

\* memory_error(error_code c): domain system, platform_errno 0.
memory_error(c) == [domain |-> "system", platform_errno |-> 0, code |-> c]

\* detail::make_system_error of the mapping manager.
mmap_make_system_error(errno_val) ==
    LET code ==
          CASE errno_val = EINVAL -> "invalid_argument"
            [] errno_val = ENOMEM -> "no_memory"
            [] errno_val = EACCES -> "permission_denied"
            [] errno_val = EPERM -> "permission_denied"
            [] errno_val = ENOENT -> "file_not_found"
            [] errno_val = EBUSY -> "device_busy"
            [] errno_val = ENODEV -> "no_such_device"
            [] errno_val = EADDRINUSE -> "address_in_use"
            [] errno_val = EFAULT -> "bad_address"
            [] errno_val = ENOSYS -> "not_supported"
            [] OTHER -> "io_error"
    IN [domain |-> "system", platform_errno |-> errno_val % 256, code |-> code]

\* Native flag words as sets of bit positions (bitwise OR is set union).
PROT_READ == {0}
PROT_WRITE == {1}
PROT_EXEC == {2}
MAP_SHARED == {0}
MAP_PRIVATE == {1}
MAP_FIXED == {4}
MAP_ANONYMOUS == {5}
MAP_POPULATE == {15}
MAP_HUGETLB == {18}
MAP_FIXED_NOREPLACE == {20}
MAP_HUGE_2MB == {26, 28, 30}
MAP_HUGE_1GB == {27, 28, 29, 30}

\* detail::to_prot_flags: access is a subset of {"read","write","execute"}.
to_prot_flags(access) ==
    (IF "read" \in access THEN PROT_READ ELSE {})
    \cup (IF "write" \in access THEN PROT_WRITE ELSE {})
    \cup (IF "execute" \in access THEN PROT_EXEC ELSE {})

\* A plausible slip: an address hint is treated as a fixed address.
placement_flags_HintFixed(placement) ==
    CASE placement \in {"fixed_address", "hint_address"} -> MAP_FIXED
      [] placement = "fixed_no_replace" -> MAP_FIXED_NOREPLACE
      [] OTHER -> {}

\* detail::to_map_flags, the "Placement strategy" switch.
placement_flags(placement) ==
    CASE placement = "fixed_address" -> MAP_FIXED
      [] placement = "fixed_no_replace" -> MAP_FIXED_NOREPLACE
      [] OTHER -> {}

\* detail::to_map_flags.
to_map_flags(req) ==
    (CASE req.sharing = "shared" -> MAP_SHARED
       [] req.sharing = "private_cow" -> MAP_PRIVATE)
    \cup (IF req.backing = "anonymous" THEN MAP_ANONYMOUS ELSE {})
    \cup placement_flags(req.placement)
    \cup (IF req.page_pref \in {"prefer_large", "require_large"}
          THEN MAP_HUGETLB
               \cup (IF req.large_page_size # 0
                     THEN IF req.large_page_size = 2 * 1024 * 1024
                          THEN MAP_HUGE_2MB
                          ELSE IF req.large_page_size = 1024 * 1024 * 1024
                               THEN MAP_HUGE_1GB
                               ELSE {}
                     ELSE {})
          ELSE {})
    \cup (IF req.populate = "prefault" \/ req.commit = "pre_commit"
          THEN MAP_POPULATE ELSE {})
    \cup (IF req.enable_native THEN req.native_flags ELSE {})

\* detail::get_page_size.
get_page_size == PageSize

\* Pages the kernel covers for a byte range starting at a page-aligned address.
PagesOf(addr, length) ==
    {p \in 1..NPages :
        /\ p * PageSize >= addr
        /\ p * PageSize < addr + length}

MinLen(a, b) == IF a <= b THEN a ELSE b

PageCount(length) == (length + PageSize - 1) \div PageSize

\* The default-constructed memory_region.
ZeroRegion ==
    [address |-> 0, length |-> 0, actual_page_size |-> 0, file_descriptor |-> -1,
     file_offset |-> 0, actual_access |-> {"read"}, actual_sharing |-> "shared",
     actual_pages |-> "system_default", is_locked |-> FALSE, supports_sync |-> FALSE]

\* What mmap(2) can answer: a failure with an errno, or the address of the new
\* mapping.  Addresses are byte addresses p * PageSize of page p, 0 is null.
\* no_huge marks the ENOMEM of a MAP_HUGETLB request the huge page pool cannot serve.
OsMmap(v, hint, length, flags, fd) ==
    LET n == PageCount(length)
        fits(a) == /\ a # 0
                   /\ a % PageSize = 0
                   /\ a \div PageSize >= 1
                   /\ (a \div PageSize) + n - 1 <= NPages
        free(a) == PagesOf(a, length) \cap v = {}
        fail(e) == [ok |-> FALSE, errno |-> e, addr |-> 0, no_huge |-> FALSE]
        good(a) == [ok |-> TRUE, errno |-> 0, addr |-> a, no_huge |-> FALSE]
        Addrs == {p * PageSize : p \in 1..NPages}
    IN IF (MAP_ANONYMOUS \cap flags = {}) /\ fd < 0 THEN {fail(EBADF)}
       ELSE IF (MAP_HUGETLB \subseteq flags) /\ ~hugeAvail
            THEN {[fail(ENOMEM) EXCEPT !.no_huge = TRUE]}
       ELSE IF MAP_FIXED \subseteq flags
            THEN IF fits(hint) THEN {good(hint), fail(ENOMEM)} ELSE {fail(EINVAL)}
       ELSE IF MAP_FIXED_NOREPLACE \subseteq flags
            THEN IF ~fits(hint) THEN {fail(EINVAL)}
                 ELSE IF free(hint) THEN {good(hint), fail(ENOMEM)}
                 ELSE {fail(EEXIST)}
       ELSE {good(a) : a \in {b \in Addrs : fits(b) /\ free(b)}} \cup {fail(ENOMEM)}

\* munmap(2): every page of the range leaves the address space (and its lock).
OsMunmap(v, addr, length) == v \ PagesOf(addr, length)

\* detail::apply_madvise: the kernel's answer errno (0 = success) becomes the result.
apply_madvise(errno_val) ==
    IF errno_val = 0 THEN [ok |-> TRUE, error |-> memory_error("success")]
    ELSE [ok |-> FALSE, error |-> mmap_make_system_error(errno_val)]

\* detail::apply_mlock: no_lock issues no syscall and succeeds.
apply_mlock(strategy, errno_val) ==
    IF strategy \notin {"lock_resident", "lock_on_fault"}
    THEN [ok |-> TRUE, error |-> memory_error("success"), called |-> FALSE]
    ELSE IF errno_val = 0
         THEN [ok |-> TRUE, error |-> memory_error("success"), called |-> TRUE]
         ELSE [ok |-> FALSE, error |-> mmap_make_system_error(errno_val), called |-> TRUE]

\* A plausible slip: the error path forgets the munmap.
CleanupOnError_Skip(v, addr, length, cleanup_needed) == v

\* map_memory_impl, "Cleanup on error": the pages left mapped when the call returns.
CleanupOnError(v, addr, length, cleanup_needed) ==
    IF cleanup_needed THEN OsMunmap(v, addr, length) ELSE v

\* A plausible slip: only the length is validated.
invalid_request_LengthOnly(request) == request.length = 0

\* map_memory_impl, "Validate parameters": the requests rejected before any syscall.
invalid_request(request) ==
    request.length = 0 \/ request.offset % get_page_size # 0

\* A plausible slip: a failed advice is treated like a failed lock.
post_step_fatal_AdviceToo(do_lock, lock_ok, advice_ok, hint_ok) ==
    (do_lock /\ ~lock_ok) \/ ~advice_ok

\* map_memory_impl, post-mapping operations: whether cleanup_needed gets set.
post_step_fatal(do_lock, lock_ok, advice_ok, hint_ok) == do_lock /\ ~lock_ok

MemoryRequests ==
    [length : {0, 1, PageSize, PageSize + 1},
     offset : {0, 1},
     address_hint : {PageSize},
     large_page_size : {0},
     access : {{"read", "write"}},
     sharing : {"private_cow"},
     backing : {"file_backed", "anonymous"},
     placement : {"any_address", "hint_address", "fixed_address", "fixed_no_replace"},
     page_pref : {"system_default", "prefer_large", "require_large"},
     commit : {"lazy_commit"},
     populate : {"none", "hint_needed"},
     locking : {"no_lock", "lock_resident", "lock_on_fault"},
     pattern : {"normal_access", "sequential_access"},
     native_flags : {{}},
     enable_native : {FALSE}]

NoCall == [op |-> "none"]

InitMap ==
    /\ vm \in {{}, {1}}
    /\ vmLocked = {}
    /\ hugeAvail \in BOOLEAN
    /\ mfd \in {-1, 3}
    /\ mreq \in MemoryRequests
    /\ regions = {}
    /\ released = {}
    /\ mres = NoCall

\* map_memory(file_descriptor, request): mmapErr, adviceErr, lockErr and hintErr are
\* the kernel's answers to the syscalls the call may issue.
MapMemory ==
    \E adviceErr \in (IF mreq.pattern # "normal_access" THEN {0, EINVAL} ELSE {0}),
       lockErr \in (IF mreq.locking # "no_lock" THEN {0, ENOMEM, EPERM} ELSE {0}),
       hintErr \in (IF mreq.populate = "hint_needed" THEN {0, EINVAL} ELSE {0}) :
      LET request == mreq
          prot_flags == to_prot_flags(request.access)
          map_flags == to_map_flags(request)
          hint_addr == IF request.placement = "any_address" THEN 0
                       ELSE request.address_hint
          fdarg == IF request.backing = "anonymous" THEN -1 ELSE mfd
          rejected == invalid_request(request)
      IN
      IF rejected
      THEN /\ mres' = [op |-> "map_memory", ok |-> FALSE,
                       error |-> memory_error("invalid_argument"),
                       region |-> ZeroRegion, calls |-> << >>,
                       created |-> {}, pre_vm |-> vm, lock_failed |-> FALSE,
                       advice_failed |-> FALSE, no_huge |-> FALSE]
           /\ UNCHANGED <<vm, vmLocked, hugeAvail, mfd, mreq, regions, released>>
      ELSE
      /\ Cardinality(regions) < MaxRegions
      /\ \E m \in OsMmap(vm, hint_addr, request.length, map_flags, fdarg) :
        IF ~m.ok
        THEN /\ mres' = [op |-> "map_memory", ok |-> FALSE,
                         error |-> mmap_make_system_error(m.errno),
                         region |-> ZeroRegion, calls |-> <<"mmap">>,
                         created |-> {}, pre_vm |-> vm, lock_failed |-> FALSE,
                         advice_failed |-> FALSE, no_huge |-> m.no_huge]
             /\ UNCHANGED <<vm, vmLocked, hugeAvail, mfd, mreq, regions, released>>
        ELSE
        LET mapped_addr == m.addr
            created == PagesOf(mapped_addr, request.length)
            vm1 == vm \cup created
            locked1 == vmLocked \ created
            region0 ==
              [address |-> mapped_addr, length |-> request.length,
               actual_page_size |-> get_page_size,
               file_descriptor |-> fdarg,
               file_offset |-> request.offset,
               actual_access |-> request.access,
               actual_sharing |-> request.sharing,
               actual_pages |-> "system_default",
               is_locked |-> FALSE,
               supports_sync |-> (request.backing = "file_backed")]
            do_advice == request.pattern # "normal_access"
            advice_result == apply_madvise(adviceErr)
            do_lock == request.locking # "no_lock"
            lock_result == apply_mlock(request.locking, lockErr)
            do_hint == request.populate = "hint_needed"
                       /\ ~(MAP_POPULATE \subseteq map_flags)
            cleanup_needed == post_step_fatal(do_lock, lock_result.ok,
                                              ~do_advice \/ advice_result.ok,
                                              ~do_hint \/ hintErr = 0)
            locked2 == IF do_lock /\ lock_result.ok THEN locked1 \cup created
                       ELSE locked1
            region1 == [region0 EXCEPT
                          !.is_locked = do_lock /\ lock_result.ok,
                          !.actual_pages = IF request.page_pref # "system_default"
                                           THEN request.page_pref
                                           ELSE "system_default"]
            vm2 == CleanupOnError(vm1, mapped_addr, request.length, cleanup_needed)
            calls == <<"mmap">>
                     \o (IF do_advice THEN <<"madvise">> ELSE << >>)
                     \o (IF do_lock /\ lock_result.called THEN <<"mlock">> ELSE << >>)
                     \o (IF do_hint THEN <<"madvise">> ELSE << >>)
                     \o (IF cleanup_needed /\ vm2 # vm1 THEN <<"munmap">> ELSE << >>)
        IN /\ vm' = vm2
           /\ vmLocked' = locked2 \cap vm2
           /\ regions' = IF cleanup_needed THEN regions ELSE regions \cup {region1}
           /\ mres' = [op |-> "map_memory", ok |-> ~cleanup_needed,
                       error |-> IF cleanup_needed THEN lock_result.error
                                 ELSE memory_error("success"),
                       region |-> IF cleanup_needed THEN ZeroRegion ELSE region1,
                       calls |-> calls, created |-> created, pre_vm |-> vm,
                       lock_failed |-> do_lock /\ ~lock_result.ok,
                       advice_failed |-> (do_advice /\ ~advice_result.ok)
                                         \/ (do_hint /\ hintErr # 0),
                       no_huge |-> FALSE]
           /\ UNCHANGED <<hugeAvail, mfd, mreq, released>>

\* unmap_memory_impl on one of the region values in Held; with keep the caller
\* keeps its copy of the region after the call.
UnmapMemory(Held, keep) ==
    \E region \in Held :
      LET issue == region.address # 0 /\ region.length > 0
      IN /\ vm' = IF issue THEN OsMunmap(vm, region.address, region.length) ELSE vm
         /\ vmLocked' = vmLocked \cap vm'
         /\ regions' = regions \ {region}
         /\ released' = IF keep /\ region \in regions THEN {region} ELSE released
         /\ mres' = [op |-> "unmap_memory", ok |-> TRUE,
                     error |-> memory_error("success"), region |-> region,
                     calls |-> IF issue THEN <<"munmap">> ELSE << >>,
                     created |-> {}, pre_vm |-> vm, lock_failed |-> FALSE,
                     advice_failed |-> FALSE, stale |-> region \notin regions]
         /\ UNCHANGED <<hugeAvail, mfd, mreq>>

\* lock_memory(region, strategy): apply_mlock on the region's range.  The region is
\* taken by const reference; lockErr is the kernel's answer to mlock / mlock2.
LockMemory ==
    \E region \in regions, strategy \in {"lock_resident", "lock_on_fault"},
       lockErr \in {0, ENOMEM, EPERM} :
      LET lock_result == apply_mlock(strategy, lockErr)
      IN /\ vmLocked' = IF lock_result.ok
                        THEN vmLocked \cup PagesOf(region.address, region.length)
                        ELSE vmLocked
         /\ mres' = [op |-> "lock_memory", ok |-> lock_result.ok,
                     error |-> lock_result.error, region |-> region,
                     calls |-> <<"mlock">>]
         /\ UNCHANGED <<vm, hugeAvail, mfd, mreq, regions, released>>

\* unlock_memory(region): munlock on the region's range; unlockErr is the kernel's
\* answer.
UnlockMemory ==
    \E region \in regions, unlockErr \in {0, ENOMEM} :
      /\ vmLocked' = IF unlockErr = 0
                     THEN vmLocked \ PagesOf(region.address, region.length)
                     ELSE vmLocked
      /\ mres' = [op |-> "unlock_memory", ok |-> unlockErr = 0,
                  error |-> IF unlockErr = 0 THEN memory_error("success")
                            ELSE mmap_make_system_error(unlockErr),
                  region |-> region, calls |-> <<"munlock">>]
      /\ UNCHANGED <<vm, hugeAvail, mfd, mreq, regions, released>>

\* msync(2): the errno it can answer for a range (0 = success).
OsMsync(v, addr, length) ==
    IF addr # 0 /\ length > 0 /\ PagesOf(addr, length) \subseteq v
    THEN {0, EBUSY}
    ELSE {ENOMEM}

\* A plausible slip: only the supports_sync flag is looked at.
sync_supported_FlagOnly(region) == region.supports_sync

\* sync_memory_impl: the regions msync is issued for.
sync_supported(region) == region.supports_sync /\ region.file_descriptor >= 0

MS_SYNC == {2}
MS_INVALIDATE == {1}

\* sync_memory(region, invalidate_caches) on one of the region values in Held.
SyncMemory(Held) ==
    \E region \in Held, invalidate_caches \in BOOLEAN :
      IF ~sync_supported(region)
      THEN /\ mres' = [op |-> "sync_memory", ok |-> FALSE,
                       error |-> memory_error("no_such_device"), region |-> region,
                       calls |-> << >>, range |-> << >>, flags |-> {}, errno |-> 0,
                       pre_vm |-> vm]
           /\ UNCHANGED <<vm, vmLocked, hugeAvail, mfd, mreq, regions, released>>
      ELSE \E e \in OsMsync(vm, region.address, region.length) :
             /\ mres' = [op |-> "sync_memory", ok |-> e = 0,
                         error |-> IF e = 0 THEN memory_error("success")
                                   ELSE mmap_make_system_error(e),
                         region |-> region, calls |-> <<"msync">>,
                         range |-> <<region.address, region.length>>,
                         flags |-> MS_SYNC \cup (IF invalidate_caches
                                                 THEN MS_INVALIDATE ELSE {}),
                         errno |-> e, pre_vm |-> vm]
             /\ UNCHANGED <<vm, vmLocked, hugeAvail, mfd, mreq, regions, released>>

\* Arithmetic of std::size_t.
WordMod == 2 ^ WordBits
SIZE_MAX == WordMod - 1

\* prefetch_memory_impl: the bytes handed to madvise.
prefetch_size(region, offset, length) ==
    IF length = 0 THEN (region.length - offset) % WordMod ELSE length

\* prefetch_memory_impl: the range check, in machine arithmetic.
prefetch_rejected(region, offset, length) ==
    \/ offset >= region.length
    \/ (offset + prefetch_size(region, offset, length)) % WordMod > region.length

\* madvise(2) for a byte range: the address must be page aligned and mapped.
OsMadvise(v, addr, length) ==
    IF addr % PageSize # 0 \/ addr + length >= WordMod THEN {EINVAL}
    ELSE IF PagesOf(addr, MinLen(length, NPages * PageSize)) \subseteq v /\ addr # 0
    THEN {0} ELSE {ENOMEM}

\* prefetch_memory(region, offset, length) on a region the caller holds.
PrefetchMemory ==
    \E region \in regions, offset \in {0, 1, PageSize, SIZE_MAX},
       length \in {0, 1, PageSize, SIZE_MAX} :
      LET size == prefetch_size(region, offset, length)
      IN IF prefetch_rejected(region, offset, length)
         THEN /\ mres' = [op |-> "prefetch_memory", ok |-> FALSE,
                          error |-> memory_error("invalid_argument"),
                          region |-> region, offset |-> offset, length |-> length,
                          calls |-> << >>, range |-> << >>]
              /\ UNCHANGED <<vm, vmLocked, hugeAvail, mfd, mreq, regions, released>>
         ELSE \E e \in OsMadvise(vm, region.address + offset, size) :
                /\ mres' = [op |-> "prefetch_memory", ok |-> apply_madvise(e).ok,
                            error |-> apply_madvise(e).error,
                            region |-> region, offset |-> offset, length |-> length,
                            calls |-> <<"madvise">>,
                            range |-> <<region.address + offset, size>>]
                /\ UNCHANGED <<vm, vmLocked, hugeAvail, mfd, mreq, regions, released>>

(***************************************************************************)
(*                      PROCESS RESOURCE MANAGER                           *)
(***************************************************************************)
VARIABLES
    pfds,       \* the calling process's descriptor table
    nonblock,   \* pipe ends (open file descriptions) with O_NONBLOCK set
    pipes,      \* bytes buffered in the pipe of each standard stream
    child,      \* the forked child: its state, descriptor table and history
    sp,         \* the spawn_process call that created the child
    handle,     \* the caller's process_handle
    ph,         \* the caller's pipe_handle.fd for stdin, stdout, stderr
    closeCalls, \* close(2) calls close_pipe has issued for each pipe handle
    io,         \* what the caller wrote to stdin and read from stdout
    pres        \* record of the last process-manager call

procVars == <<pfds, nonblock, pipes, child, sp, handle, ph, closeCalls, io, pres>>

\* State of the file resource manager and of the owning file wrapper.
VARIABLES
    files,      \* open file descriptions: descriptor -> [open, pos]
    fdata,      \* bytes of the one regular file of the model
    fh,         \* the caller's file_handle
    wrappers,   \* the asyncle::io::file objects: lifetime state and handle_.fd
    badClose,   \* whether close(2) was ever issued on a descriptor that was not open
    fres        \* record of the last file-manager call

fileVars == <<files, fdata, fh, wrappers, badClose, fres>>

\* Record locks on the file.
VARIABLES
    ownLocks,   \* the caller's locks: byte -> "none", "shared" or "exclusive"
    otherLock,  \* the lock another process holds, or NoLock
    calls,      \* concurrent spawn_process calls: thread -> progress of its call
    maps,       \* mmap wrapper objects: id -> whether it is alive, and its region_
    strays      \* munmap calls the wrappers issued for a range that was not mapped

ownVars == <<maps, strays>>

lockVars == <<ownLocks, otherLock>>

\* The state outside the three managers' own variables.
restVars == <<lockVars, calls, ownVars>>

vars == <<vm, vmLocked, hugeAvail, mfd, mreq, regions, released, mres,
          pfds, nonblock, pipes, child, sp, handle, ph, closeCalls, io, pres,
          files, fdata, fh, wrappers, badClose, fres, ownLocks, otherLock, calls, maps, strays>>

Streams == {0, 1, 2}
Fds == 0..(NFds - 1)

\* Entries of a descriptor table.
Closed == [kind |-> "closed", id |-> 0, end |-> "-", cloexec |-> FALSE]
StdDesc(i) == [kind |-> "std", id |-> i, end |-> "-", cloexec |-> FALSE]
NullDesc == [kind |-> "null", id |-> 0, end |-> "-", cloexec |-> FALSE]
PipeDesc(s, e) == [kind |-> "pipe", id |-> s, end |-> e, cloexec |-> FALSE]

\* The end of stream s's pipe the child uses, and the one the parent keeps.
ChildEnd(s) == IF s = 0 THEN "r" ELSE "w"
ParentEnd(s) == IF s = 0 THEN "w" ELSE "r"

IsOpen(t, fd) == fd \in DOMAIN t /\ t[fd].kind # "closed"
FreeFds(t) == {fd \in DOMAIN t : t[fd].kind = "closed"}
MinOf(S) == CHOOSE x \in S : \A y \in S : x <= y
Only(S) == CHOOSE x \in S : TRUE

\* process_error(error_code c) and detail::make_system_error of the process manager.
process_error(c) == [domain |-> "system", platform_errno |-> 0, code |-> c]

proc_make_system_error(errno_val) ==
    LET code ==
          CASE errno_val = EACCES -> "permission_denied"
            [] errno_val = ENOENT -> "not_found"
            [] errno_val = ENOMEM -> "no_memory"
            [] errno_val = EAGAIN -> "would_block"
            [] errno_val = EINTR -> "interrupted"
            [] errno_val = EPIPE -> "broken_pipe"
            [] errno_val = ECHILD -> "process_not_found"
            [] errno_val = EINVAL -> "invalid_argument"
            [] errno_val = E2BIG -> "invalid_argument"
            [] errno_val = ELOOP -> "io_error"
            [] errno_val = ENFILE -> "too_many_processes"
            [] errno_val = EMFILE -> "too_many_processes"
            [] OTHER -> "io_error"
    IN [domain |-> "system", platform_errno |-> errno_val % 256, code |-> code]

NoError == process_error("success")

(***************************************************************************)
(* The kernel's descriptor calls.                                          *)
(***************************************************************************)
\* close(2): closing a descriptor that is not open fails (EBADF) and changes nothing.
OsClose(t, fd) == IF IsOpen(t, fd) THEN [t EXCEPT ![fd] = Closed] ELSE t

\* pipe(2) for stream s: the two lowest free descriptors, read end first.
\* forced is an errno the kernel answers for its own reasons (0: none).
OsPipe(t, s, forced) ==
    IF forced # 0 THEN [ok |-> FALSE, errno |-> forced, t |-> t, fds |-> <<-1, -1>>]
    ELSE IF Cardinality(FreeFds(t)) < 2
         THEN [ok |-> FALSE, errno |-> EMFILE, t |-> t, fds |-> <<-1, -1>>]
         ELSE LET r == MinOf(FreeFds(t))
                  w == MinOf(FreeFds(t) \ {r})
              IN [ok |-> TRUE, errno |-> 0,
                  t |-> [t EXCEPT ![r] = PipeDesc(s, "r"), ![w] = PipeDesc(s, "w")],
                  fds |-> <<r, w>>]

\* dup2(2): fails on a closed source; same source and target is a no-op; else the
\* target is replaced by a copy of the source without the close-on-exec flag.
OsDup2(t, old, new, forced) ==
    IF forced \/ ~IsOpen(t, old) THEN [ok |-> FALSE, t |-> t]
    ELSE IF old = new THEN [ok |-> TRUE, t |-> t]
    ELSE [ok |-> TRUE, t |-> [t EXCEPT ![new] = [t[old] EXCEPT !.cloexec = FALSE]]]

\* open("/dev/null"): the lowest free descriptor.
OsOpenNull(t, forced) ==
    IF forced \/ FreeFds(t) = {} THEN [fd |-> -1, t |-> t]
    ELSE LET n == MinOf(FreeFds(t))
         IN [fd |-> n, t |-> [t EXCEPT ![n] = NullDesc]]

\* detail::set_cloexec.
set_cloexec(t, fd) ==
    IF IsOpen(t, fd) THEN [t EXCEPT ![fd].cloexec = TRUE] ELSE t

\* A plausible slip: the flag is read but never written back.
set_nonblocking_Noop(t, nb, fd) == nb

\* detail::set_nonblocking: O_NONBLOCK on the open file description behind fd.
set_nonblocking(t, nb, fd) ==
    IF IsOpen(t, fd) /\ t[fd].kind = "pipe"
    THEN nb \cup {<<t[fd].id, t[fd].end>>} ELSE nb

(***************************************************************************)
(* spawn_process_impl, parent side.                                        *)
(***************************************************************************)
\* The error paths' "if(fds[0] != -1) { close(fds[0]); close(fds[1]); }".
close_pair(t, fds) ==
    IF fds[1] # -1 THEN OsClose(OsClose(t, fds[1]), fds[2]) ELSE t

\* A plausible slip: an error path closes the read ends only.
cleanup_pipes_ReadEndsOnly(t, in, out, err) ==
    LET c(u, fds) == IF fds[1] # -1 THEN OsClose(u, fds[1]) ELSE u
    IN c(c(c(t, in), out), err)

\* The cleanup of the pipes created so far, on a later pipe or fork failure.
cleanup_pipes(t, in, out, err) ==
    close_pair(close_pair(close_pair(t, in), out), err)

\* One "if(mode == pipe) { pipe(fds); set_cloexec(parent end); }" block.
create_pipe(t, mode, s, forced) ==
    IF mode # "pipe" THEN [ok |-> TRUE, errno |-> 0, t |-> t, fds |-> <<-1, -1>>]
    ELSE LET p == OsPipe(t, s, forced)
         IN IF ~p.ok THEN p
            ELSE [p EXCEPT !.t = set_cloexec(p.t, IF s = 0 THEN p.fds[2] ELSE p.fds[1])]

\* A plausible slip: the parent closes its own end instead of the child's.
close_child_ends_Swapped(t, in, out, err) ==
    LET c(u, fd) == IF fd # -1 THEN OsClose(u, fd) ELSE u
    IN c(c(c(t, in[2]), out[1]), err[1])

\* "Close child ends of pipes" in the parent.
close_child_ends(t, in, out, err) ==
    LET c(u, fd) == IF fd # -1 THEN OsClose(u, fd) ELSE u
    IN c(c(c(t, in[1]), out[2]), err[2])

\* "Return handles": the pipe_handle.fd values after the call.
return_handles(h, ptrs, in, out, err) ==
    [s \in Streams |->
        LET fd == IF s = 0 THEN in[2] ELSE IF s = 1 THEN out[1] ELSE err[1]
        IN IF s \in ptrs /\ fd # -1 THEN fd ELSE h[s]]

\* The descriptor calls made on a failure path after the failing pipe() or fork()
\* and before errno is read: the closes of the pipes in and out made so far.
errno_gap(in, out) ==
    (IF in[1] # -1 THEN <<"close", "close">> ELSE << >>)
    \o (IF out[1] # -1 THEN <<"close", "close">> ELSE << >>)

NoChild == [state |-> "none"]
NoSpawn == [called |-> FALSE]
DefaultHandle == [pid |-> -1, flags |-> 0, exit_code |-> -1, state |-> 0]
ChildPid == 100

SpawnRequests ==
    [executable : {"NULL", "/bin/cat"},
     working_dir : {"NULL", "/tmp"},
     env : {"NULL"},
     flags : {0},
     mode : [Streams -> {"none", "pipe", "inherit"}]]

PtrSets == {{0, 1, 2}, {1, 2}, {0}, {}}

\* spawn_process(request, stdin_pipe, stdout_pipe, stderr_pipe) in the caller,
\* up to its return; the child it forks runs ChildBranch.  A run makes one call.
SpawnProcess(Requests, Ptrs) ==
    /\ ~sp.called
    /\ \E request \in Requests, ptrs \in Ptrs,
          failAt \in {"none", "pipe_in", "pipe_out", "pipe_err", "fork"},
          failErrno \in {ENFILE, ENOMEM} :
       \E a \in {create_pipe(pfds, request.mode[0], 0,
                               IF failAt = "pipe_in" THEN failErrno ELSE 0)} :
       \E b \in {create_pipe(a.t, request.mode[1], 1,
                               IF failAt = "pipe_out" THEN failErrno ELSE 0)} :
       \E c \in {create_pipe(b.t, request.mode[2], 2,
                               IF failAt = "pipe_err" THEN failErrno ELSE 0)} :
       LET
           none == <<-1, -1>>
           failed(err, t, trace, gap) ==
             /\ pres' = [op |-> "spawn", ok |-> FALSE, error |-> err,
                         request |-> request, ptrs |-> ptrs, trace |-> trace,
                         errno_gap |-> gap,
                         created |-> ((IF a.ok THEN {a.fds[1], a.fds[2]} ELSE {})
                                      \cup (IF a.ok /\ b.ok THEN {b.fds[1], b.fds[2]} ELSE {})
                                      \cup (IF a.ok /\ b.ok /\ c.ok
                                            THEN {c.fds[1], c.fds[2]} ELSE {}))
                                     \ {-1},
                         pre_pfds |-> pfds, pre_ph |-> ph]
             /\ pfds' = t
             /\ sp' = [called |-> TRUE]
             /\ UNCHANGED <<nonblock, pipes, child, handle, ph, closeCalls, io>>
       IN
       IF request.executable = "NULL"
       THEN /\ failAt = "none" /\ failErrno = ENFILE
            /\ failed(process_error("invalid_argument"), pfds, << >>, << >>)
       ELSE IF ~a.ok
       THEN failed(proc_make_system_error(a.errno), pfds, <<"pipe">>, << >>)
       ELSE IF ~b.ok
       THEN failed(proc_make_system_error(b.errno),
                   cleanup_pipes(a.t, a.fds, none, none), <<"pipe", "close">>,
                   errno_gap(a.fds, none))
       ELSE IF ~c.ok
       THEN failed(proc_make_system_error(c.errno),
                   cleanup_pipes(b.t, a.fds, b.fds, none), <<"pipe", "close">>,
                   errno_gap(a.fds, b.fds))
       ELSE IF failAt = "fork"
       THEN failed(proc_make_system_error(failErrno),
                   cleanup_pipes(c.t, a.fds, b.fds, c.fds), <<"fork", "close">>, << >>)
       ELSE
         LET t1 == close_child_ends(c.t, a.fds, b.fds, c.fds)
             nb0 == IF a.fds[2] # -1 THEN set_nonblocking(t1, nonblock, a.fds[2])
                    ELSE nonblock
             nb1 == IF b.fds[1] # -1 THEN set_nonblocking(t1, nb0, b.fds[1]) ELSE nb0
             nb2 == IF c.fds[1] # -1 THEN set_nonblocking(t1, nb1, c.fds[1]) ELSE nb1
         IN /\ failAt = "none" /\ failErrno = ENFILE
            /\ pfds' = t1
            /\ nonblock' = nb2
            /\ ph' = return_handles(ph, ptrs, a.fds, b.fds, c.fds)
            /\ child' = [state |-> "forked", fds |-> c.t, execFds |-> c.t,
                         trace |-> << >>, branch_end |-> "none",
                         term |-> [kind |-> "none", code |-> 0, core |-> FALSE], hand |-> << >>]
            /\ sp' = [called |-> TRUE, request |-> request, ptrs |-> ptrs,
                      in |-> a.fds, out |-> b.fds, err |-> c.fds,
                      pre_pfds |-> pfds, fork_fds |-> c.t]
            /\ handle' = [pid |-> ChildPid, flags |-> request.flags,
                          exit_code |-> -1, state |-> 0]
            /\ pres' = [op |-> "spawn", ok |-> TRUE, error |-> NoError,
                        request |-> request, ptrs |-> ptrs, trace |-> <<"fork">>,
                        created |-> {a.fds[1], a.fds[2], b.fds[1], b.fds[2],
                                     c.fds[1], c.fds[2]} \ {-1},
                        pre_pfds |-> pfds, pre_ph |-> ph]
            /\ UNCHANGED <<pipes, closeCalls, io>>

(***************************************************************************)
(* spawn_process_impl, child side: from "if(pid == 0)" to exec or _exit.   *)
(***************************************************************************)
Step(call, s, ok) == [call |-> call, stream |-> s, ok |-> ok]

\* "Redirect stdin / stdout / stderr" for stream s.  st is the child so far:
\* its table, whether it is still running this code, and the calls it made.
\* f.dup2 and f.open are the streams whose dup2 or open the kernel fails.
redirect(st, s, mode, fds, f) ==
    IF ~st.alive THEN st
    ELSE IF mode = "pipe"
    THEN LET parent_fd == IF s = 0 THEN fds[2] ELSE fds[1]
             child_fd == IF s = 0 THEN fds[1] ELSE fds[2]
             t1 == OsClose(st.t, parent_fd)
             d == OsDup2(t1, child_fd, s, s \in f.dup2)
         IN IF ~d.ok
            THEN [t |-> t1, alive |-> FALSE,
                  trace |-> st.trace \o <<Step("close", s, TRUE), Step("dup2", s, FALSE)>>]
            ELSE [t |-> OsClose(d.t, child_fd), alive |-> TRUE,
                  trace |-> st.trace \o <<Step("close", s, TRUE), Step("dup2", s, TRUE),
                                          Step("close", s, TRUE)>>]
    ELSE IF mode = "none"
    THEN LET o == OsOpenNull(st.t, s \in f.open)
         IN IF o.fd = -1
            THEN [st EXCEPT !.trace = st.trace \o <<Step("open", s, FALSE)>>]
            ELSE LET d == OsDup2(o.t, o.fd, s, s \in f.dup2)
                 IN [t |-> OsClose(d.t, o.fd), alive |-> TRUE,
                     trace |-> st.trace \o <<Step("open", s, TRUE), Step("dup2", s, d.ok),
                                             Step("close", s, TRUE)>>]
    ELSE st

\* The whole child branch: how it ends ("exec" or "_exit"), with which table.
child_branch(t, request, in, out, err, f) ==
    LET s0 == [t |-> t, alive |-> TRUE, trace |-> << >>]
        rest(s3) ==
          LET s4 == IF s3.alive /\ request.working_dir # "NULL"
                    THEN [s3 EXCEPT !.alive = ~f.chdir,
                                    !.trace = s3.trace \o <<Step("chdir", -1, ~f.chdir)>>]
                    ELSE s3
              s5 == IF s4.alive /\ (request.flags % 2 = 1)
                    THEN [s4 EXCEPT !.trace = s4.trace \o <<Step("setpgid", -1, TRUE)>>]
                    ELSE s4
              s6 == IF s5.alive
                    THEN [s5 EXCEPT !.alive = ~f.exec,
                                    !.trace = s5.trace \o <<Step("exec", -1, ~f.exec)>>]
                    ELSE s5
          IN [end |-> IF s6.alive THEN "exec" ELSE "_exit", t |-> s6.t,
              trace |-> s6.trace]
    IN Only({rest(s3) :
               s3 \in {redirect(s2, 2, request.mode[2], err, f) :
                 s2 \in {redirect(s1, 1, request.mode[1], out, f) :
                   s1 \in {redirect(s0, 0, request.mode[0], in, f)}}}})

\* exec closes the descriptors marked close-on-exec.
AfterExec(t) == [fd \in DOMAIN t |-> IF t[fd].cloexec THEN Closed ELSE t[fd]]
AllClosed == [fd \in Fds |-> Closed]

ChildFailures(request) ==
    [dup2 : SUBSET {s \in Streams : request.mode[s] # "inherit"},
     open : SUBSET {s \in Streams : request.mode[s] = "none"},
     chdir : IF request.working_dir # "NULL" THEN BOOLEAN ELSE {FALSE},
     exec : BOOLEAN]

\* The forked child runs its branch of spawn_process.
ChildBranch(Failures) ==
    /\ child.state = "forked"
    /\ \E f \in ChildFailures(sp.request) \cap Failures :
         LET r == child_branch(child.fds, sp.request, sp.in, sp.out, sp.err, f)
         IN child' = IF r.end = "exec"
                     THEN [child EXCEPT !.state = "running", !.fds = AfterExec(r.t),
                                        !.execFds = r.t, !.trace = r.trace,
                                        !.branch_end = "exec"]
                     ELSE [child EXCEPT !.state = "zombie", !.fds = AllClosed,
                                        !.execFds = r.t, !.trace = r.trace,
                                        !.branch_end = "_exit",
                                        !.term = [kind |-> "exit", code |-> 127, core |-> FALSE]]
    /\ UNCHANGED <<pfds, nonblock, pipes, sp, handle, ph, closeCalls, io, pres>>

(***************************************************************************)
(* spawn_process_impl called by two threads of one process.  Each call asks *)
(* for one pipe; the threads share the process's descriptor table pfds, and *)
(* each system call of a call is one step.                                  *)
(***************************************************************************)
Threads == {1, 2}

\* A call that has not started: its pipe stream, its fds[2] array, its child.
NewCall(s) ==
    [pc |-> "start", stream |-> s, fds |-> <<-1, -1>>,
     forked |-> FALSE, execd |-> FALSE, cfds |-> AllClosed]

NoCalls == [th \in Threads |-> NewCall(1)]
IdleCalls == calls = NoCalls

\* The ends of the call's pipe by position in its fds array.
parent_end(c) == IF c.stream = 0 THEN c.fds[2] ELSE c.fds[1]
child_end(c) == IF c.stream = 0 THEN c.fds[1] ELSE c.fds[2]

\* "pipe(fds)" of thread th; the pipe is labelled with the call that made it.
ThreadPipe(th) ==
    /\ calls[th].pc = "start"
    /\ LET p == OsPipe(pfds, th, 0)
       IN /\ pfds' = p.t
          /\ calls' = [calls EXCEPT ![th].fds = p.fds,
                                    ![th].pc = IF p.ok THEN "piped" ELSE "failed"]
    /\ UNCHANGED <<nonblock, pipes, child, sp, handle, ph, closeCalls, io, pres>>

\* "set_cloexec(parent end)" of thread th.
ThreadCloexec(th) ==
    /\ calls[th].pc = "piped"
    /\ pfds' = set_cloexec(pfds, parent_end(calls[th]))
    /\ calls' = [calls EXCEPT ![th].pc = "flagged"]
    /\ UNCHANGED <<nonblock, pipes, child, sp, handle, ph, closeCalls, io, pres>>

\* "fork()" of thread th: the child starts with a copy of the whole table.
ThreadFork(th) ==
    /\ calls[th].pc = "flagged"
    /\ calls' = [calls EXCEPT ![th].pc = "forked", ![th].forked = TRUE, ![th].cfds = pfds]
    /\ UNCHANGED procVars

\* The parent after fork: "Close child ends of pipes", then the parent end is made
\* non-blocking and returned.
ThreadParent(th) ==
    /\ calls[th].pc = "forked"
    /\ pfds' = OsClose(pfds, child_end(calls[th]))
    /\ nonblock' = set_nonblocking(pfds, nonblock, parent_end(calls[th]))
    /\ calls' = [calls EXCEPT ![th].pc = "returned"]
    /\ UNCHANGED <<pipes, child, sp, handle, ph, closeCalls, io, pres>>

\* The child of thread th's call: redirect its pipe stream, then exec.
ThreadChild(th) ==
    /\ calls[th].forked /\ ~calls[th].execd
    /\ LET c == calls[th]
           st == redirect([t |-> c.cfds, alive |-> TRUE, trace |-> << >>], c.stream,
                          "pipe", c.fds, [dup2 |-> {}, open |-> {}])
       IN calls' = [calls EXCEPT ![th].execd = TRUE, ![th].cfds = AfterExec(st.t)]
    /\ UNCHANGED procVars

(***************************************************************************)
(* Pipes, and the child program after exec.                                *)
(***************************************************************************)
Alive(c) == c.state \in {"forked", "running"}

HoldsEnd(t, s, e) == \E fd \in DOMAIN t : t[fd].kind = "pipe" /\ t[fd].id = s /\ t[fd].end = e

\* Whether some process still has the end e of stream s's pipe open.
HasEnd(s, e) == HoldsEnd(pfds, s, e) \/ (Alive(child) /\ HoldsEnd(child.fds, s, e))

\* The message the caller sends: bytes 1, 2, ...
Msg == [i \in 1..MsgLen |-> i]

Take(q, n) == SubSeq(q, 1, n)
Drop(q, n) == SubSeq(q, n + 1, Len(q))
MinNat(a, b) == IF a <= b THEN a ELSE b

\* read(2) on descriptor fd of table t, by a process for which O_NONBLOCK is nb.
\* ret = -1 with an errno, or the number of bytes; blocks says the call would wait.
OsRead(t, fd, length, nb) ==
    IF ~IsOpen(t, fd) \/ t[fd].end = "w"
    THEN [ret |-> -1, errno |-> EBADF, blocks |-> FALSE, stream |-> -1]
    ELSE IF t[fd].kind # "pipe"
    THEN [ret |-> 0, errno |-> 0, blocks |-> FALSE, stream |-> -1]
    ELSE LET s == t[fd].id
         IN IF pipes[s] # << >>
            THEN [ret |-> MinNat(length, Len(pipes[s])), errno |-> 0, blocks |-> FALSE,
                  stream |-> s]
            ELSE IF ~HasEnd(s, "w")
            THEN [ret |-> 0, errno |-> 0, blocks |-> FALSE, stream |-> s]
            ELSE IF nb
            THEN [ret |-> -1, errno |-> EAGAIN, blocks |-> FALSE, stream |-> s]
            ELSE [ret |-> -1, errno |-> 0, blocks |-> TRUE, stream |-> s]

\* write(2) of length bytes.
OsWrite(t, fd, length, nb) ==
    IF ~IsOpen(t, fd) \/ t[fd].end = "r"
    THEN [ret |-> -1, errno |-> EBADF, blocks |-> FALSE, stream |-> -1]
    ELSE IF t[fd].kind # "pipe"
    THEN [ret |-> length, errno |-> 0, blocks |-> FALSE, stream |-> -1]
    ELSE LET s == t[fd].id
         IN IF ~HasEnd(s, "r")
            THEN [ret |-> -1, errno |-> EPIPE, blocks |-> FALSE, stream |-> s]
            ELSE IF Len(pipes[s]) < PipeCap
            THEN [ret |-> MinNat(length, PipeCap - Len(pipes[s])), errno |-> 0,
                  blocks |-> FALSE, stream |-> s]
            ELSE IF nb
            THEN [ret |-> -1, errno |-> EAGAIN, blocks |-> FALSE, stream |-> s]
            ELSE [ret |-> -1, errno |-> 0, blocks |-> TRUE, stream |-> s]

IsNonblock(t, fd) == IsOpen(t, fd) /\ <<t[fd].id, t[fd].end>> \in nonblock

SIGQUIT == 3
SIGKILL == 9
SIGPIPE == 13
SIGTERM == 15

Exited(code) == [kind |-> "exit", code |-> code, core |-> FALSE]
Signalled(sig, core) == [kind |-> "signal", code |-> sig, core |-> core]

Terminate(c, term) == [c EXCEPT !.state = "zombie", !.fds = AllClosed, !.term = term]

\* /bin/cat: read a byte from descriptor 0, write it to descriptor 1, until
\* end-of-file; a failed read or write ends it with status 1, SIGPIPE kills it.
CatStep ==
    /\ child.state = "running"
    /\ sp.request.executable = "/bin/cat"
    /\ IF child.hand = << >>
       THEN LET r == OsRead(child.fds, 0, 1, FALSE)
            IN /\ ~r.blocks
               /\ IF r.ret < 0 THEN /\ child' = Terminate(child, Exited(1))
                                    /\ pipes' = pipes
                  ELSE IF r.ret = 0 THEN /\ child' = Terminate(child, Exited(0))
                                         /\ pipes' = pipes
                  ELSE /\ child' = [child EXCEPT !.hand = Take(pipes[r.stream], 1)]
                       /\ pipes' = [pipes EXCEPT ![r.stream] = Drop(@, 1)]
       ELSE LET w == OsWrite(child.fds, 1, 1, FALSE)
            IN /\ ~w.blocks
               /\ IF w.ret < 0
                  THEN /\ child' = Terminate(child, IF w.errno = EPIPE
                                                   THEN Signalled(SIGPIPE, FALSE)
                                                   ELSE Exited(1))
                       /\ pipes' = pipes
                  ELSE /\ child' = [child EXCEPT !.hand = << >>]
                       /\ pipes' = IF w.stream >= 0
                                   THEN [pipes EXCEPT ![w.stream] = @ \o child.hand]
                                   ELSE pipes
    /\ UNCHANGED <<pfds, nonblock, sp, handle, ph, closeCalls, io, pres>>

(***************************************************************************)
(* wait_process_impl, kill_process_impl, terminate_process_impl.           *)
(***************************************************************************)
is_valid_process(h) == h.pid > 0
is_valid_pipe(fd) == fd >= 0

\* The status word waitpid stores for a terminated child.
OsWaitStatus(term) ==
    IF term.kind = "exit" THEN (term.code % 256) * 256
    ELSE term.code + (IF term.core THEN 128 ELSE 0)

WIFEXITED(status) == status % 128 = 0
WEXITSTATUS(status) == (status \div 256) % 256
WIFSIGNALED(status) == (status % 128) # 0 /\ (status % 128) # 127
WTERMSIG(status) == status % 128

\* A plausible slip: the signal number taken from the low byte, core flag included.
decode_status_CoreBit(status) ==
    IF WIFEXITED(status) THEN WEXITSTATUS(status)
    ELSE IF WIFSIGNALED(status) THEN 128 + (status % 256)
    ELSE -1

\* wait_process_impl, "Process terminated": status word to exit code.
decode_status(status) ==
    IF WIFEXITED(status) THEN WEXITSTATUS(status)
    ELSE IF WIFSIGNALED(status) THEN 128 + WTERMSIG(status)
    ELSE -1

\* A plausible slip: the handle is marked waited whatever waitpid answered.
handle_after_wait_Always(h, result, exit_code) ==
    [h EXCEPT !.state = 1, !.exit_code = IF result > 0 THEN exit_code ELSE @]

\* wait_process_impl: the handle after waitpid returned result.
handle_after_wait(h, result, exit_code) ==
    IF result > 0 THEN [h EXCEPT !.exit_code = exit_code, !.state = 1] ELSE h

\* waitpid(2) answers for the caller's child; a blocking wait returns only once the
\* child has terminated, or early with EINTR.
OsWaitpid(pid, no_hang) ==
    IF pid # ChildPid \/ child.state \in {"none", "reaped"}
    THEN {[result |-> -1, errno |-> ECHILD, status |-> 0]}
    ELSE IF child.state = "zombie"
    THEN {[result |-> pid, errno |-> 0, status |-> OsWaitStatus(child.term)]}
    ELSE IF no_hang THEN {[result |-> 0, errno |-> 0, status |-> 0]}
    ELSE {[result |-> -1, errno |-> EINTR, status |-> 0]}

\* wait_process(handle, no_hang).
WaitProcess ==
    \E no_hang \in BOOLEAN :
      IF ~is_valid_process(handle)
      THEN /\ pres' = [op |-> "wait", ok |-> FALSE,
                       error |-> process_error("invalid_argument"), value |-> -1,
                       no_hang |-> no_hang, syscalls |-> 0, pre_handle |-> handle,
                       pre_child |-> child.state]
           /\ UNCHANGED <<pfds, nonblock, pipes, child, sp, handle, ph, closeCalls, io>>
      ELSE \E w \in OsWaitpid(handle.pid, no_hang) :
             LET exit_code == decode_status(w.status)
             IN /\ handle' = handle_after_wait(handle, w.result, exit_code)
                /\ child' = IF w.result > 0 THEN [child EXCEPT !.state = "reaped"]
                            ELSE child
                /\ pres' = [op |-> "wait", ok |-> w.result > 0,
                            error |-> IF w.result < 0 THEN proc_make_system_error(w.errno)
                                      ELSE IF w.result = 0
                                      THEN process_error("would_block")
                                      ELSE NoError,
                            value |-> IF w.result > 0 THEN exit_code ELSE -1,
                            no_hang |-> no_hang, syscalls |-> 1, pre_handle |-> handle,
                            pre_child |-> child.state]
                /\ UNCHANGED <<pfds, nonblock, pipes, sp, ph, closeCalls, io>>

\* kill_process(handle, signal); terminate_process is kill_process with SIGTERM.
KillProcess ==
    \E signal \in {SIGQUIT, SIGKILL, SIGTERM} :
      IF ~is_valid_process(handle)
      THEN /\ pres' = [op |-> "kill", ok |-> FALSE,
                       error |-> process_error("invalid_argument"), syscalls |-> 0]
           /\ UNCHANGED <<pfds, nonblock, pipes, child, sp, handle, ph, closeCalls, io>>
      ELSE IF child.state \in {"none", "reaped"}
      THEN /\ pres' = [op |-> "kill", ok |-> FALSE,
                       error |-> proc_make_system_error(ESRCH), syscalls |-> 1]
           /\ UNCHANGED <<pfds, nonblock, pipes, child, sp, handle, ph, closeCalls, io>>
      ELSE /\ child' = IF Alive(child) THEN Terminate(child, Signalled(signal, signal = SIGQUIT))
                       ELSE child
           /\ io' = [io EXCEPT !.signalled = TRUE]
           /\ pres' = [op |-> "kill", ok |-> TRUE, error |-> NoError, syscalls |-> 1]
           /\ UNCHANGED <<pfds, nonblock, pipes, sp, handle, ph, closeCalls>>

(***************************************************************************)
(* read_pipe_impl, write_pipe_impl, close_pipe_impl.                       *)
(***************************************************************************)
\* The error a failed read or write returns.
io_error_of(errno_val) ==
    IF errno_val = EAGAIN THEN process_error("would_block")
    ELSE proc_make_system_error(errno_val)

\* read_pipe(pipe, request) on the handle of stream s.
ReadPipe ==
    \E s \in Streams, buffer \in {"NULL", "buf"}, length \in {0, PipeCap} :
      LET fd == ph[s]
          snapshot == [stream |-> s, pre_fd |-> fd,
                       valid_args |-> (buffer # "NULL" /\ length > 0),
                       pre_empty |-> pipes[s] = << >>, pre_full |-> Len(pipes[s]) >= PipeCap,
                       pre_writer |-> HasEnd(s, "w"), pre_reader |-> HasEnd(s, "r")]
      IN IF ~is_valid_pipe(fd) \/ buffer = "NULL" \/ length = 0
         THEN /\ pres' = [op |-> "read_pipe", ok |-> FALSE, blocked |-> FALSE,
                          error |-> process_error("invalid_argument"),
                          value |-> 0, at |-> snapshot]
              /\ UNCHANGED <<pfds, nonblock, pipes, child, sp, handle, ph, closeCalls, io>>
         ELSE LET r == OsRead(pfds, fd, length, IsNonblock(pfds, fd))
              IN /\ pres' = [op |-> "read_pipe", ok |-> (~r.blocks /\ r.ret >= 0),
                             blocked |-> r.blocks,
                             error |-> IF r.blocks \/ r.ret >= 0 THEN NoError
                                       ELSE io_error_of(r.errno),
                             value |-> IF r.ret >= 0 THEN r.ret ELSE 0, at |-> snapshot]
                 /\ pipes' = IF r.ret > 0 THEN [pipes EXCEPT ![r.stream] = Drop(@, r.ret)]
                             ELSE pipes
                 /\ io' = IF s = 1 /\ r.ret > 0
                          THEN [io EXCEPT !.received = @ \o Take(pipes[r.stream], r.ret)]
                          ELSE IF s = 1 /\ r.ret = 0 /\ ~r.blocks
                          THEN [io EXCEPT !.eof = TRUE]
                          ELSE io
                 /\ UNCHANGED <<pfds, nonblock, child, sp, handle, ph, closeCalls>>

\* write_pipe(pipe, request) on the handle of stream s; the buffer holds the part
\* of the message not yet written.
WritePipe ==
    \E s \in Streams, buffer \in {"NULL", "buf"}, length \in 0..(MsgLen - io.written) :
      LET fd == ph[s]
          snapshot == [stream |-> s, pre_fd |-> fd,
                       valid_args |-> (buffer # "NULL" /\ length > 0),
                       pre_empty |-> pipes[s] = << >>, pre_full |-> Len(pipes[s]) >= PipeCap,
                       pre_writer |-> HasEnd(s, "w"), pre_reader |-> HasEnd(s, "r")]
      IN IF ~is_valid_pipe(fd) \/ buffer = "NULL" \/ length = 0
         THEN /\ pres' = [op |-> "write_pipe", ok |-> FALSE, blocked |-> FALSE,
                          error |-> process_error("invalid_argument"),
                          value |-> 0, at |-> snapshot]
              /\ UNCHANGED <<pfds, nonblock, pipes, child, sp, handle, ph, closeCalls, io>>
         ELSE LET w == OsWrite(pfds, fd, length, IsNonblock(pfds, fd))
              IN /\ pres' = [op |-> "write_pipe", ok |-> (~w.blocks /\ w.ret >= 0),
                             blocked |-> w.blocks,
                             error |-> IF w.blocks \/ w.ret >= 0 THEN NoError
                                       ELSE io_error_of(w.errno),
                             value |-> IF w.ret >= 0 THEN w.ret ELSE 0, at |-> snapshot]
                 /\ pipes' = IF w.ret > 0 /\ w.stream >= 0
                             THEN [pipes EXCEPT ![w.stream] =
                                     @ \o SubSeq(Msg, io.written + 1, io.written + w.ret)]
                             ELSE pipes
                 /\ io' = IF w.ret > 0 THEN [io EXCEPT !.written = @ + w.ret] ELSE io
                 /\ UNCHANGED <<pfds, nonblock, child, sp, handle, ph, closeCalls>>

\* A plausible slip: the handle keeps its descriptor after the close.
fd_after_close_Kept(fd, closed) == fd

\* close_pipe_impl: the handle's fd after close(2) succeeded or failed.
fd_after_close(fd, closed) == IF closed THEN -1 ELSE fd

\* close_pipe(pipe) on the handle of stream s.
ClosePipe ==
    \E s \in Streams :
      LET fd == ph[s]
      IN IF ~is_valid_pipe(fd)
         THEN /\ pres' = [op |-> "close_pipe", ok |-> TRUE, error |-> NoError,
                          stream |-> s, pre_fd |-> fd, syscalls |-> 0, pre_pfds |-> pfds]
              /\ UNCHANGED <<pfds, nonblock, pipes, child, sp, handle, ph, closeCalls, io>>
         ELSE LET closed == IsOpen(pfds, fd)
              IN /\ pfds' = OsClose(pfds, fd)
                 /\ ph' = [ph EXCEPT ![s] = fd_after_close(fd, closed)]
                 /\ closeCalls' = [closeCalls EXCEPT ![s] = IF @ < 2 THEN @ + 1 ELSE @]
                 /\ pres' = [op |-> "close_pipe", ok |-> closed,
                             error |-> IF closed THEN NoError
                                       ELSE proc_make_system_error(EBADF),
                             stream |-> s, pre_fd |-> fd, syscalls |-> 1, pre_pfds |-> pfds]
                 /\ UNCHANGED <<nonblock, pipes, child, sp, handle, io>>

AllFailures ==
    [dup2 : SUBSET Streams, open : SUBSET Streams, chdir : BOOLEAN, exec : BOOLEAN]

InitProc ==
    /\ pfds \in {[fd \in Fds |-> IF fd \in open THEN StdDesc(fd) ELSE Closed] :
                   open \in SUBSET Streams}
    /\ nonblock = {}
    /\ pipes = [s \in Streams |-> << >>]
    /\ child = NoChild
    /\ sp = NoSpawn
    /\ handle = DefaultHandle
    /\ ph = [s \in Streams |-> -1]
    /\ closeCalls = [s \in Streams |-> 0]
    /\ io = [written |-> 0, received |-> << >>, eof |-> FALSE, signalled |-> FALSE]
    /\ pres = NoCall

\* Values of the other manager's variables while one manager is exercised.
IdleMap ==
    /\ vm = {} /\ vmLocked = {} /\ hugeAvail = FALSE /\ mfd = -1
    /\ mreq = CHOOSE r \in MemoryRequests : TRUE
    /\ regions = {} /\ released = {} /\ mres = NoCall

(***************************************************************************)
(*                      FILE RESOURCE MANAGER                              *)
(***************************************************************************)
FileFds == 3..(2 + NFileFds)
WrapperIds == 1..NWrappers

\* file_error(error_code c): domain system, platform_errno 0.
file_error(c) == [domain |-> "system", platform_errno |-> 0, code |-> c]

\* detail::make_system_error of the file manager.
file_make_system_error(errno_val) ==
    LET code ==
          CASE errno_val = EINVAL -> "invalid_argument"
            [] errno_val = ENOMEM -> "no_memory"
            [] errno_val = EACCES -> "permission_denied"
            [] errno_val = EPERM -> "permission_denied"
            [] errno_val = ENOENT -> "file_not_found"
            [] errno_val = EEXIST -> "file_exists"
            [] errno_val = EISDIR -> "is_directory"
            [] errno_val = ENOTDIR -> "not_directory"
            [] errno_val = EMFILE -> "too_many_files"
            [] errno_val = ENFILE -> "too_many_files"
            [] errno_val = EFBIG -> "file_too_large"
            [] errno_val = ENOSPC -> "no_space"
            [] errno_val = ESPIPE -> "invalid_seek"
            [] errno_val = EROFS -> "read_only_fs"
            [] errno_val = EPIPE -> "broken_pipe"
            [] errno_val = EAGAIN -> "would_block"
            [] errno_val = EINTR -> "interrupted"
            [] errno_val = ENOSYS -> "not_supported"
            [] OTHER -> "io_error"
    IN [domain |-> "system", platform_errno |-> errno_val % 256, code |-> code]

\* The default-constructed file_handle.
NoFileHandle == [fd |-> -1]
file_is_valid(h) == h.fd >= 0

ClosedFile == [open |-> FALSE, pos |-> 0, append |-> FALSE]
FileOpenAt(f, fd) == fd \in DOMAIN f /\ f[fd].open

\* io_request.offset value that means "current position": static_cast<uint64_t>(-1).
CurrentPosition == WordMod - 1

\* to_open_flags over the access modes of the model: read_write, append.
to_open_flags(access) ==
    (IF "read_write" \in access THEN {"O_RDWR"} ELSE {"O_RDONLY"})
    \cup (IF "append" \in access THEN {"O_APPEND"} ELSE {})

\* The open file description a successful open(2) creates.
OpenedFile(flags) == [open |-> TRUE, pos |-> 0, append |-> "O_APPEND" \in flags]

\* open(2): the empty path and a missing file give ENOENT, a full table EMFILE,
\* otherwise the lowest free descriptor is returned.
OsOpen(f, path) ==
    LET free == {fd \in FileFds : ~f[fd].open}
    IN IF path # "/tmp/f" THEN [fd |-> -1, errno |-> ENOENT]
       ELSE IF free = {} THEN [fd |-> -1, errno |-> EMFILE]
       ELSE [fd |-> MinOf(free), errno |-> 0]

\* lseek(fd, 0, SEEK_CUR).
OsTell(f, fd) == IF FileOpenAt(f, fd) THEN f[fd].pos ELSE -1

\* Bytes of data from byte position at on, at most length of them.
BytesAt(data, at, length) ==
    IF at >= Len(data) THEN << >>
    ELSE SubSeq(data, at + 1, MinNat(at + length, Len(data)))

\* Data with bytes put at byte position at; a gap is filled with zeros.
PutAt(data, at, bytes) ==
    LET n == IF at + Len(bytes) > Len(data) THEN at + Len(bytes) ELSE Len(data)
    IN [i \in 1..n |-> IF i > at /\ i <= at + Len(bytes) THEN bytes[i - at]
                       ELSE IF i <= Len(data) THEN data[i] ELSE 0]

\* The offset argument as off_t: the upper half of the word is negative.
NegativeOff(offset) == offset >= WordMod \div 2

\* read(2) / pread(2) at byte position at: ret = -1 with errno, or the byte count.
OsReadAt(f, data, fd, at, length) ==
    IF ~FileOpenAt(f, fd) THEN [ret |-> -1, errno |-> EBADF, bytes |-> << >>]
    ELSE IF NegativeOff(at) THEN [ret |-> -1, errno |-> EINVAL, bytes |-> << >>]
    ELSE [ret |-> Len(BytesAt(data, at, length)), errno |-> 0,
          bytes |-> BytesAt(data, at, length)]

\* Where write(2) / pwrite(2) puts the bytes: with O_APPEND the end of the file
\* (on Linux for pwrite as well), otherwise the byte position asked for.
WriteStart(f, data, fd, at) == IF f[fd].append THEN Len(data) ELSE at

\* write(2) / pwrite(2) at byte position at; the file cannot grow beyond MaxFile.
\* The answer names the byte position the data went to.
OsWriteAt(f, data, fd, at, bytes) ==
    IF ~FileOpenAt(f, fd) THEN [ret |-> -1, errno |-> EBADF, data |-> data, at |-> 0]
    ELSE IF NegativeOff(at) THEN [ret |-> -1, errno |-> EINVAL, data |-> data, at |-> 0]
    ELSE IF bytes = << >> THEN [ret |-> 0, errno |-> 0, data |-> data, at |-> at]
    ELSE LET start == WriteStart(f, data, fd, at)
         IN IF start >= MaxFile THEN [ret |-> -1, errno |-> EFBIG, data |-> data, at |-> 0]
            ELSE [ret |-> MinNat(Len(bytes), MaxFile - start), errno |-> 0,
                  data |-> PutAt(data, start,
                                 SubSeq(bytes, 1, MinNat(Len(bytes), MaxFile - start))),
                  at |-> start]

\* A plausible slip: every request is served at the current position.
positioned_Never(offset) == FALSE

\* read_file_impl / write_file_impl: whether pread/pwrite is used.
positioned(offset) == offset # CurrentPosition

\* read_file_impl / write_file_impl: the position reported in io_result.
reported_position(new_pos) == IF new_pos < 0 THEN 0 ELSE new_pos

\* open_file(path, request) into the caller's handle.
OpenFile ==
    \E path \in {"", "/tmp/f", "/tmp/none"},
       access \in {{"read_write"}, {"read_write", "append"}} :
      /\ ~file_is_valid(fh)
      /\ LET o == OsOpen(files, path)
         IN /\ files' = IF o.fd >= 0
                        THEN [files EXCEPT ![o.fd] = OpenedFile(to_open_flags(access))]
                        ELSE files
            /\ fh' = IF o.fd >= 0 THEN [fd |-> o.fd] ELSE fh
            /\ fres' = [op |-> "open_file", path |-> path, access |-> access,
                        ok |-> o.fd >= 0,
                        error |-> IF o.fd >= 0 THEN file_error("success")
                                  ELSE file_make_system_error(o.errno),
                        pre_files |-> files]
      /\ UNCHANGED <<fdata, wrappers, badClose>>

Offsets == {0, 1, MaxFile, WordMod - 2, CurrentPosition}

\* read_file(handle, request).
ReadFile ==
    \E offset \in Offsets, length \in 0..2 :
      LET pre == OsTell(files, fh.fd)
          at == IF positioned(offset) THEN offset ELSE pre
          r == OsReadAt(files, fdata, fh.fd, at, length)
          moved == IF r.ret > 0 /\ ~positioned(offset)
                   THEN [files EXCEPT ![fh.fd].pos = @ + r.ret] ELSE files
      IN /\ files' = moved
         /\ fres' = [op |-> "read_file", ok |-> r.ret >= 0,
                     error |-> IF r.ret >= 0 THEN file_error("success")
                               ELSE file_make_system_error(r.errno),
                     offset |-> offset, length |-> length,
                     bytes_transferred |-> IF r.ret >= 0 THEN r.ret ELSE 0,
                     new_offset |-> IF r.ret >= 0
                                    THEN reported_position(OsTell(moved, fh.fd)) ELSE 0,
                     bytes |-> r.bytes, pre_pos |-> pre, pre_data |-> fdata,
                     append |-> FileOpenAt(files, fh.fd) /\ files[fh.fd].append]
         /\ UNCHANGED <<fdata, fh, wrappers, badClose>>

\* write_file(handle, request); the buffer holds length copies of the byte b.
WriteFile ==
    \E offset \in Offsets, length \in 0..2, b \in {1, 2} :
      LET pre == OsTell(files, fh.fd)
          at == IF positioned(offset) THEN offset ELSE pre
          buffer == [i \in 1..length |-> b]
          w == OsWriteAt(files, fdata, fh.fd, at, buffer)
          moved == IF w.ret > 0 /\ ~positioned(offset)
                   THEN [files EXCEPT ![fh.fd].pos = w.at + w.ret] ELSE files
      IN /\ files' = moved
         /\ fdata' = w.data
         /\ fres' = [op |-> "write_file", ok |-> w.ret >= 0,
                     error |-> IF w.ret >= 0 THEN file_error("success")
                               ELSE file_make_system_error(w.errno),
                     offset |-> offset, length |-> length,
                     bytes_transferred |-> IF w.ret >= 0 THEN w.ret ELSE 0,
                     new_offset |-> IF w.ret >= 0
                                    THEN reported_position(OsTell(moved, fh.fd)) ELSE 0,
                     bytes |-> IF w.ret > 0 THEN SubSeq(buffer, 1, w.ret) ELSE << >>,
                     pre_pos |-> pre, pre_data |-> fdata,
                     append |-> FileOpenAt(files, fh.fd) /\ files[fh.fd].append]
         /\ UNCHANGED <<fh, wrappers, badClose>>

\* seek_file(handle, offset, seek_origin::begin).
SeekFile ==
    \E offset \in 0..MaxFile :
      /\ files' = IF FileOpenAt(files, fh.fd) THEN [files EXCEPT ![fh.fd].pos = offset]
                  ELSE files
      /\ fres' = [op |-> "seek_file", ok |-> FileOpenAt(files, fh.fd),
                  error |-> IF FileOpenAt(files, fh.fd) THEN file_error("success")
                            ELSE file_make_system_error(EBADF),
                  offset |-> offset]
      /\ UNCHANGED <<fdata, fh, wrappers, badClose>>

\* close_file_impl: close(2) on a valid handle, then fd = -1.
close_file(f, h) ==
    IF file_is_valid(h)
    THEN [files |-> IF FileOpenAt(f, h.fd) THEN [f EXCEPT ![h.fd] = ClosedFile] ELSE f,
          handle |-> NoFileHandle, bad |-> ~FileOpenAt(f, h.fd), calls |-> 1]
    ELSE [files |-> f, handle |-> h, bad |-> FALSE, calls |-> 0]

\* close_file(handle) on the caller's handle.
CloseFile ==
    LET c == close_file(files, fh)
    IN /\ files' = c.files
       /\ fh' = c.handle
       /\ badClose' = (badClose \/ c.bad)
       /\ fres' = [op |-> "close_file", ok |-> TRUE, error |-> file_error("success"),
                   calls |-> c.calls]
       /\ UNCHANGED <<fdata, wrappers>>

(***************************************************************************)
(* splice_files_impl, sendfile_op_impl.                                    *)
(***************************************************************************)
\* The caller's uint64_t* arguments: a null pointer, or a pointer to a value.
NullPtr == [null |-> TRUE, val |-> 0]
OffsetPtrs == {NullPtr} \cup [null : {FALSE}, val : {0, 1, WordMod - 2}]

\* A plausible slip: the local copy is never written back.
offset_after_Never(ptr, result, local) == ptr

\* "if(offset) *offset = off;" after the error return: the caller's value afterwards.
offset_after(ptr, result, local) ==
    IF result >= 0 /\ ~ptr.null THEN [ptr EXCEPT !.val = local] ELSE ptr

\* Kernel side of sendfile(2) and of splice(2) from a file: bytes are taken from the
\* file at *off, or at the descriptor's position when off is null, and *off or the
\* position moves past them. Answer: return value, errno, *off and the position.
OsFromFile(f, data, fd, ptr, count) ==
    IF ~FileOpenAt(f, fd)
    THEN [ret |-> -1, errno |-> EBADF, off |-> ptr.val, pos |-> 0, data |-> data]
    ELSE IF ~ptr.null /\ NegativeOff(ptr.val)
    THEN [ret |-> -1, errno |-> EINVAL, off |-> ptr.val, pos |-> f[fd].pos, data |-> data]
    ELSE LET at == IF ptr.null THEN f[fd].pos ELSE ptr.val
             n == Len(BytesAt(data, at, count))
         IN [ret |-> n, errno |-> 0,
             off |-> IF ptr.null THEN ptr.val ELSE at + n,
             pos |-> IF ptr.null THEN at + n ELSE f[fd].pos, data |-> data]

\* Kernel side of splice(2) into a file: count bytes of the pipe are put at *off, or
\* at the descriptor's position; a descriptor opened with O_APPEND is refused.
OsIntoFile(f, data, fd, ptr, count) ==
    IF ~FileOpenAt(f, fd)
    THEN [ret |-> -1, errno |-> EBADF, off |-> ptr.val, pos |-> 0, data |-> data]
    ELSE IF f[fd].append \/ (~ptr.null /\ NegativeOff(ptr.val))
    THEN [ret |-> -1, errno |-> EINVAL, off |-> ptr.val, pos |-> f[fd].pos, data |-> data]
    ELSE LET at == IF ptr.null THEN f[fd].pos ELSE ptr.val
             w == OsWriteAt(f, data, fd, at, [i \in 1..count |-> 1])
         IN IF w.ret < 0
            THEN [ret |-> -1, errno |-> w.errno, off |-> ptr.val, pos |-> f[fd].pos,
                  data |-> data]
            ELSE [ret |-> w.ret, errno |-> 0,
                  off |-> IF ptr.null THEN ptr.val ELSE at + w.ret,
                  pos |-> IF ptr.null THEN at + w.ret ELSE f[fd].pos, data |-> w.data]

\* splice(2) between the file and a pipe: an offset for the pipe end is refused.
OsSplice(f, data, fd, to_file, file_ptr, pipe_ptr, length) ==
    IF FileOpenAt(f, fd) /\ ~pipe_ptr.null
    THEN [ret |-> -1, errno |-> ESPIPE, off |-> file_ptr.val, pos |-> f[fd].pos,
          data |-> data]
    ELSE IF to_file THEN OsIntoFile(f, data, fd, file_ptr, length)
    ELSE OsFromFile(f, data, fd, file_ptr, length)

\* splice_files(in, in_offset, out, out_offset, length, flags) with the caller's
\* handle at one end and a pipe at the other.
SpliceFiles ==
    \E to_file \in BOOLEAN, file_ptr \in OffsetPtrs, pipe_ptr \in {NullPtr, [null |-> FALSE, val |-> 0]},
       length \in {0, 2} :
      LET k == OsSplice(files, fdata, fh.fd, to_file, file_ptr, pipe_ptr, length)
      IN /\ files' = IF FileOpenAt(files, fh.fd) THEN [files EXCEPT ![fh.fd].pos = k.pos]
                     ELSE files
         /\ fdata' = k.data
         /\ fres' = [op |-> "splice_files", ok |-> k.ret >= 0,
                     error |-> IF k.ret >= 0 THEN file_error("success")
                               ELSE file_make_system_error(k.errno),
                     ptr |-> file_ptr, ptr_after |-> offset_after(file_ptr, k.ret, k.off),
                     other |-> pipe_ptr, other_after |-> offset_after(pipe_ptr, k.ret, 0),
                     bytes_transferred |-> IF k.ret >= 0 THEN k.ret ELSE 0,
                     pre_pos |-> OsTell(files, fh.fd)]
         /\ UNCHANGED <<fh, wrappers, badClose>>

\* sendfile_op(out, in, offset, count) from the caller's handle to a socket.
SendFile ==
    \E ptr \in OffsetPtrs, count \in {0, 2} :
      LET k == OsFromFile(files, fdata, fh.fd, ptr, count)
      IN /\ files' = IF FileOpenAt(files, fh.fd) THEN [files EXCEPT ![fh.fd].pos = k.pos]
                     ELSE files
         /\ fres' = [op |-> "sendfile_op", ok |-> k.ret >= 0,
                     error |-> IF k.ret >= 0 THEN file_error("success")
                               ELSE file_make_system_error(k.errno),
                     ptr |-> ptr, ptr_after |-> offset_after(ptr, k.ret, k.off),
                     other |-> NullPtr, other_after |-> NullPtr,
                     bytes_transferred |-> IF k.ret >= 0 THEN k.ret ELSE 0,
                     pre_pos |-> OsTell(files, fh.fd)]
         /\ UNCHANGED <<fdata, fh, wrappers, badClose>>

(***************************************************************************)
(*                 asyncle::io::file, the owning wrapper                   *)
(***************************************************************************)
NoWrapper == [alive |-> FALSE, fd |-> -1, moved |-> FALSE]
is_open(w) == wrappers[w].alive /\ wrappers[w].fd >= 0

\* A plausible slip: the handle is copied and the source keeps it.
exchanged_source_Kept(h) == h

\* std::exchange(other.handle_, file_handle()): what is left in the source.
exchanged_source(h) == NoFileHandle

\* file::close(): close_file on a valid handle_.
wrapper_close(f, w) == close_file(f, [fd |-> wrappers[w].fd])

\* open_file_op::start: open_file, then a file built from the new handle.
WrapperOpen ==
    \E w \in WrapperIds :
      /\ ~wrappers[w].alive
      /\ LET o == OsOpen(files, "/tmp/f")
         IN /\ files' = IF o.fd >= 0
                        THEN [files EXCEPT ![o.fd] = OpenedFile(to_open_flags({"read_write"}))]
                        ELSE files
            /\ wrappers' = IF o.fd >= 0
                           THEN [wrappers EXCEPT ![w] = [alive |-> TRUE, fd |-> o.fd,
                                                         moved |-> FALSE]]
                           ELSE wrappers
            /\ fres' = [op |-> "wrapper_open", ok |-> o.fd >= 0, target |-> w,
                        source |-> w, closed |-> 0]
      /\ UNCHANGED <<fdata, fh, badClose>>

\* file(): the default constructor.
WrapperDefault ==
    \E w \in WrapperIds :
      /\ ~wrappers[w].alive
      /\ wrappers' = [wrappers EXCEPT ![w] = [alive |-> TRUE, fd |-> -1, moved |-> FALSE]]
      /\ fres' = [op |-> "wrapper_default", ok |-> TRUE, target |-> w, source |-> w,
                  closed |-> 0]
      /\ UNCHANGED <<files, fdata, fh, badClose>>

\* file(file&& other).
WrapperMoveConstruct ==
    \E w \in WrapperIds, other \in WrapperIds :
      /\ ~wrappers[w].alive
      /\ wrappers[other].alive
      /\ wrappers' = [wrappers EXCEPT
                        ![w] = [alive |-> TRUE, fd |-> wrappers[other].fd, moved |-> FALSE],
                        ![other] = [alive |-> TRUE,
                                    fd |-> exchanged_source([fd |-> wrappers[other].fd]).fd,
                                    moved |-> TRUE]]
      /\ fres' = [op |-> "move_construct", ok |-> TRUE, target |-> w, source |-> other,
                  closed |-> 0]
      /\ UNCHANGED <<files, fdata, fh, badClose>>

\* file& operator=(file&& other), self-assignment included.
WrapperMoveAssign ==
    \E w \in WrapperIds, other \in WrapperIds :
      /\ wrappers[w].alive
      /\ wrappers[other].alive
      /\ IF w = other
         THEN /\ fres' = [op |-> "move_assign", ok |-> TRUE, target |-> w, source |-> other,
                          closed |-> 0]
              /\ UNCHANGED <<files, wrappers, badClose>>
         ELSE LET c == wrapper_close(files, w)
              IN /\ files' = c.files
                 /\ badClose' = (badClose \/ c.bad)
                 /\ wrappers' = [wrappers EXCEPT
                        ![w] = [alive |-> TRUE, fd |-> wrappers[other].fd, moved |-> FALSE],
                        ![other] = [alive |-> TRUE,
                                    fd |-> exchanged_source([fd |-> wrappers[other].fd]).fd,
                                    moved |-> TRUE]]
                 /\ fres' = [op |-> "move_assign", ok |-> TRUE, target |-> w,
                             source |-> other, closed |-> c.calls]
      /\ UNCHANGED <<fdata, fh>>

\* file::close().
WrapperClose ==
    \E w \in WrapperIds :
      /\ wrappers[w].alive
      /\ LET c == wrapper_close(files, w)
         IN /\ files' = c.files
            /\ badClose' = (badClose \/ c.bad)
            /\ wrappers' = [wrappers EXCEPT ![w].fd = c.handle.fd]
            /\ fres' = [op |-> "wrapper_close", ok |-> TRUE, target |-> w, source |-> w,
                        closed |-> c.calls]
      /\ UNCHANGED <<fdata, fh>>

\* ~file(): close(), then the object is gone.
WrapperDestroy ==
    \E w \in WrapperIds :
      /\ wrappers[w].alive
      /\ LET c == wrapper_close(files, w)
         IN /\ files' = c.files
            /\ badClose' = (badClose \/ c.bad)
            /\ wrappers' = [wrappers EXCEPT ![w] = NoWrapper]
            /\ fres' = [op |-> "wrapper_destroy", ok |-> TRUE, target |-> w, source |-> w,
                        closed |-> c.calls]
      /\ UNCHANGED <<fdata, fh>>

(***************************************************************************)
(* lock_file_impl, test_lock_impl: POSIX record locks.                     *)
(***************************************************************************)
LockBytes == 0..(NLockBytes - 1)
OtherPid == 200
NoLock == [type |-> "unlock", start |-> 0, length |-> 0, pid |-> 0]

\* The bytes of [start, start + length); length 0 reaches to the end of the file.
LockRange(start, length) ==
    {b \in LockBytes : b >= start /\ (length = 0 \/ b < start + length)}

FileLocks ==
    [type : {"shared", "exclusive", "unlock"}, command : {"set_wait", "set", "get"},
     start : LockBytes, length : {0, 1}, pid : {0}]

\* detail::to_lock_type.
to_lock_type(type) ==
    CASE type = "shared" -> "F_RDLCK"
      [] type = "exclusive" -> "F_WRLCK"
      [] OTHER -> "F_UNLCK"

\* detail::to_lock_cmd.
to_lock_cmd(command) ==
    CASE command = "set_wait" -> "F_SETLKW"
      [] command = "get" -> "F_GETLK"
      [] OTHER -> "F_SETLK"

\* Whether the other process's lock stands in the way of a lock of l_type on the range.
Conflicts(other, l_type, start, length) ==
    /\ other.type # "unlock"
    /\ LockRange(other.start, other.length) \cap LockRange(start, length) # {}
    /\ (l_type = "F_WRLCK" \/ other.type = "exclusive")

\* fcntl(fd, cmd, &fl) for the record-lock commands: return value, errno, the
\* caller's locks afterwards and the struct flock as the kernel leaves it.
OsFcntl(f, own, other, fd, cmd, fl) ==
    IF ~FileOpenAt(f, fd) THEN [ret |-> -1, errno |-> EBADF, own |-> own, fl |-> fl]
    ELSE IF cmd = "F_GETLK"
    THEN IF fl.l_type = "F_UNLCK"
         THEN [ret |-> -1, errno |-> EINVAL, own |-> own, fl |-> fl]
         ELSE IF Conflicts(other, fl.l_type, fl.l_start, fl.l_len)
         THEN [ret |-> 0, errno |-> 0, own |-> own,
               fl |-> [l_type |-> IF other.type = "shared" THEN "F_RDLCK" ELSE "F_WRLCK",
                       l_start |-> other.start, l_len |-> other.length,
                       l_pid |-> other.pid]]
         ELSE [ret |-> 0, errno |-> 0, own |-> own, fl |-> [fl EXCEPT !.l_type = "F_UNLCK"]]
    ELSE IF fl.l_type # "F_UNLCK" /\ Conflicts(other, fl.l_type, fl.l_start, fl.l_len)
    THEN [ret |-> -1, errno |-> IF cmd = "F_SETLKW" THEN EINTR ELSE EAGAIN,
          own |-> own, fl |-> fl]
    ELSE [ret |-> 0, errno |-> 0,
          own |-> [b \in LockBytes |->
                     IF b \in LockRange(fl.l_start, fl.l_len)
                     THEN (CASE fl.l_type = "F_RDLCK" -> "shared"
                             [] fl.l_type = "F_WRLCK" -> "exclusive"
                             [] OTHER -> "none")
                     ELSE own[b]],
          fl |-> fl]

\* The struct flock both operations build from the request.
flock_of(lock) ==
    [l_type |-> to_lock_type(lock.type), l_start |-> lock.start, l_len |-> lock.length,
     l_pid |-> 0]

\* lock_file(handle, lock).
LockFile ==
    \E lock \in FileLocks :
      LET r == OsFcntl(files, ownLocks, otherLock, fh.fd, to_lock_cmd(lock.command),
                       flock_of(lock))
      IN /\ ownLocks' = r.own
         /\ fres' = [op |-> "lock_file", ok |-> r.ret >= 0,
                     error |-> IF r.ret >= 0 THEN file_error("success")
                               ELSE file_make_system_error(r.errno),
                     cmd |-> to_lock_cmd(lock.command)]
         /\ UNCHANGED <<files, fdata, fh, wrappers, badClose, otherLock>>

\* A plausible slip: the command of the request is used, as lock_file does.
test_lock_cmd_AsGiven(command) == to_lock_cmd(command)

\* test_lock_impl: the fcntl command it issues.
test_lock_cmd(command) == "F_GETLK"

\* test_lock_impl: the file_lock built from the request and the kernel's answer.
test_lock_result(lock, fl) ==
    IF fl.l_type = "F_UNLCK" THEN [lock EXCEPT !.type = "unlock"]
    ELSE [lock EXCEPT !.type = IF fl.l_type = "F_RDLCK" THEN "shared" ELSE "exclusive",
                      !.start = fl.l_start, !.length = fl.l_len, !.pid = fl.l_pid]

\* test_lock(handle, lock).
TestLock ==
    \E lock \in FileLocks :
      LET r == OsFcntl(files, ownLocks, otherLock, fh.fd, test_lock_cmd(lock.command),
                       flock_of(lock))
      IN /\ ownLocks' = r.own
         /\ fres' = [op |-> "test_lock", ok |-> r.ret >= 0,
                     error |-> IF r.ret >= 0 THEN file_error("success")
                               ELSE file_make_system_error(r.errno),
                     lock |-> lock, cmd |-> test_lock_cmd(lock.command),
                     result |-> IF r.ret >= 0 THEN test_lock_result(lock, r.fl) ELSE lock,
                     pre_own |-> ownLocks]
         /\ UNCHANGED <<files, fdata, fh, wrappers, badClose, otherLock>>

\* The locks the other process can hold when the caller holds none.
OtherLocks ==
    {NoLock} \cup
    [type : {"shared", "exclusive"}, start : LockBytes, length : {0, 1},
     pid : {OtherPid}]

IdleLock ==
    /\ ownLocks = [b \in LockBytes |-> "none"]
    /\ otherLock = NoLock

\* The part of memory_region the wrapper's ownership turns on.
NoRegion == [address |-> 0, length |-> 0]
NoMap == [alive |-> FALSE, region |-> NoRegion]
IdleOwn == maps = [w \in WrapperIds |-> NoMap] /\ strays = 0

\* Values of the state outside the three managers while they are exercised.
IdleRest == IdleLock /\ IdleCalls /\ IdleOwn

\* Values of the file manager's variables while another manager is exercised.
IdleFile ==
    /\ files = [fd \in FileFds |-> ClosedFile]
    /\ fdata = << >>
    /\ fh = NoFileHandle
    /\ wrappers = [w \in WrapperIds |-> NoWrapper]
    /\ badClose = FALSE
    /\ fres = NoCall

\* Values of the other managers' variables while the file manager is exercised.
IdleProc == InitProc /\ \A s \in Streams : pfds[s].kind = "std"

(***************************************************************************)
(* to_map_flags over the policy axes of a memory_request.                  *)
(***************************************************************************)
\* The axes that reach the mmap flag word.  The page axis is page_pref together
\* with the large page size that refines it.
FlagAxes == {"sharing", "backing", "placement", "page", "populate", "commit"}

PageChoices ==
    [page_pref : {"system_default", "prefer_large", "require_large"},
     large_page_size : {0, 2 * 1024 * 1024, 1024 * 1024 * 1024}]

AxisValues(a) ==
    CASE a = "sharing" -> {"shared", "private_cow"}
      [] a = "backing" -> {"file_backed", "anonymous"}
      [] a = "placement" -> {"any_address", "hint_address", "fixed_address",
                             "fixed_no_replace"}
      [] a = "populate" -> {"none", "prefault", "hint_needed"}
      [] a = "commit" -> {"lazy_commit", "pre_commit"}

\* Every request that differs from r in the axis a at most.
Variants(r, a) ==
    IF a = "page"
    THEN {[r EXCEPT !.page_pref = c.page_pref, !.large_page_size = c.large_page_size] :
            c \in PageChoices}
    ELSE {[r EXCEPT ![a] = v] : v \in AxisValues(a)}

FlagRequests ==
    [length : {PageSize},
     offset : {0},
     address_hint : {PageSize},
     large_page_size : {0, 2 * 1024 * 1024, 1024 * 1024 * 1024},
     access : {{"read", "write"}},
     sharing : AxisValues("sharing"),
     backing : AxisValues("backing"),
     placement : AxisValues("placement"),
     page_pref : {"system_default", "prefer_large", "require_large"},
     commit : AxisValues("commit"),
     populate : AxisValues("populate"),
     locking : {"no_lock"},
     pattern : {"normal_access"},
     native_flags : {MAP_FIXED},
     enable_native : BOOLEAN]

\* The request in which every axis has its default value.
DefaultRequest ==
    [length |-> PageSize, offset |-> 0, address_hint |-> PageSize, large_page_size |-> 0,
     access |-> {"read", "write"}, sharing |-> "private_cow", backing |-> "file_backed",
     placement |-> "any_address", page_pref |-> "system_default",
     commit |-> "lazy_commit", populate |-> "none", locking |-> "no_lock",
     pattern |-> "normal_access", native_flags |-> {}, enable_native |-> FALSE]

\* The bits that stand for an axis: those that change when the axis alone changes.
AxisBits(a) ==
    UNION {to_map_flags(r) : r \in Variants(DefaultRequest, a)}
    \ {b \in 0..31 : \A r \in Variants(DefaultRequest, a) : b \in to_map_flags(r)}

\* What the value of axis a in request r contributes to the flag word.
Contribution(r, a) ==
    IF a = "page"
    THEN to_map_flags([DefaultRequest EXCEPT !.page_pref = r.page_pref,
                                             !.large_page_size = r.large_page_size])
         \cap AxisBits(a)
    ELSE to_map_flags([DefaultRequest EXCEPT ![a] = r[a]]) \cap AxisBits(a)

\* detail::to_map_flags applied to the request at hand.
ConvertFlags ==
    /\ mres.op = "none"
    /\ mres' = [op |-> "to_map_flags", request |-> mreq, flags |-> to_map_flags(mreq)]
    /\ UNCHANGED <<vm, vmLocked, hugeAvail, mfd, mreq, regions, released>>

(***************************************************************************)
(* class mmap (asyncle/io/mmap.hpp): the owner of one mapping.             *)
(***************************************************************************)
\* mmap::is_mapped.
mmap_is_mapped(region) == region.address # 0

\* The request map_anonymous builds.
AnonymousRequest(length) ==
    [DefaultRequest EXCEPT !.length = length, !.backing = "anonymous",
                           !.sharing = "private_cow"]

\* What platform::mmap::map_memory(-1, request) can return for such a request, with
\* the address space it leaves.
map_outcomes(v, request) ==
    LET failure == [ok |-> FALSE, region |-> NoRegion, vm |-> v]
    IN IF invalid_request(request) THEN {failure}
       ELSE {IF m.ok
             THEN [ok |-> TRUE,
                   region |-> [address |-> m.addr, length |-> request.length],
                   vm |-> v \cup PagesOf(m.addr, request.length)]
             ELSE failure :
               m \in OsMmap(v, 0, request.length, to_map_flags(request), -1)}

\* A plausible slip: the mapping is released but region_ keeps its address.
mmap_unmap_KeepRegion(v, region) ==
    IF mmap_is_mapped(region)
    THEN [vm |-> IF region.length > 0 THEN OsMunmap(v, region.address, region.length)
                 ELSE v,
          region |-> region,
          stray |-> IF region.length > 0
                       /\ ~(PagesOf(region.address, region.length) \subseteq v)
                    THEN 1 ELSE 0]
    ELSE [vm |-> v, region |-> region, stray |-> 0]

\* mmap::unmap: the address space, region_ and stray munmap calls it leaves.
mmap_unmap(v, region) ==
    IF mmap_is_mapped(region)
    THEN [vm |-> IF region.length > 0 THEN OsMunmap(v, region.address, region.length)
                 ELSE v,
          region |-> NoRegion,
          stray |-> IF region.length > 0
                       /\ ~(PagesOf(region.address, region.length) \subseteq v)
                    THEN 1 ELSE 0]
    ELSE [vm |-> v, region |-> region, stray |-> 0]

Strayed(n) == IF strays + n > 1 THEN 1 ELSE strays + n

\* mmap(): a wrapper with no mapping.
OwnDefault(w) ==
    /\ ~maps[w].alive
    /\ maps' = [maps EXCEPT ![w] = [alive |-> TRUE, region |-> NoRegion]]
    /\ mres' = [op |-> "mmap()", ok |-> TRUE, w |-> w, pre_region |-> NoRegion]
    /\ UNCHANGED <<vm, vmLocked, hugeAvail, mfd, mreq, regions, released, strays>>

\* mmap(length): maps anonymous memory, stays unmapped when that fails.
OwnConstruct(w) ==
    /\ ~maps[w].alive
    /\ \E length \in {0, PageSize, PageSize + 1} :
       \E r \in map_outcomes(vm, AnonymousRequest(length)) :
         /\ vm' = r.vm
         /\ maps' = [maps EXCEPT ![w] = [alive |-> TRUE, region |-> r.region]]
         /\ mres' = [op |-> "mmap(length)", ok |-> r.ok, w |-> w, pre_region |-> NoRegion]
    /\ UNCHANGED <<vmLocked, hugeAvail, mfd, mreq, regions, released, strays>>

\* mmap::map_anonymous, which is map(request, -1): unmap(), then map_memory.
OwnMap(w) ==
    /\ maps[w].alive
    /\ \E length \in {0, PageSize, PageSize + 1} :
       \E u \in {mmap_unmap(vm, maps[w].region)} :
       \E r \in map_outcomes(u.vm, AnonymousRequest(length)) :
         /\ vm' = r.vm
         /\ maps' = [maps EXCEPT ![w].region = IF r.ok THEN r.region ELSE u.region]
         /\ strays' = Strayed(u.stray)
         /\ mres' = [op |-> "map", ok |-> r.ok, w |-> w, pre_region |-> maps[w].region]
    /\ UNCHANGED <<vmLocked, hugeAvail, mfd, mreq, regions, released>>

\* mmap::unmap.
OwnUnmap(w) ==
    /\ maps[w].alive
    /\ \E u \in {mmap_unmap(vm, maps[w].region)} :
         /\ vm' = u.vm
         /\ maps' = [maps EXCEPT ![w].region = u.region]
         /\ strays' = Strayed(u.stray)
         /\ mres' = [op |-> "unmap", ok |-> TRUE, w |-> w, pre_region |-> maps[w].region]
    /\ UNCHANGED <<vmLocked, hugeAvail, mfd, mreq, regions, released>>

\* mmap(mmap&& other): takes other's region_ and leaves it default.
OwnMoveConstruct(w, other) ==
    /\ ~maps[w].alive /\ maps[other].alive
    /\ maps' = [maps EXCEPT ![w] = [alive |-> TRUE, region |-> maps[other].region],
                            ![other].region = NoRegion]
    /\ mres' = [op |-> "move", ok |-> TRUE, w |-> w, pre_region |-> NoRegion]
    /\ UNCHANGED <<vm, vmLocked, hugeAvail, mfd, mreq, regions, released, strays>>

\* operator=(mmap&& other): nothing on self-assignment, else unmap() and take.
OwnMoveAssign(w, other) ==
    /\ maps[w].alive /\ maps[other].alive
    /\ IF w = other
       THEN UNCHANGED <<vm, maps, strays>>
       ELSE \E u \in {mmap_unmap(vm, maps[w].region)} :
              /\ vm' = u.vm
              /\ maps' = [maps EXCEPT ![w].region = maps[other].region,
                                      ![other].region = NoRegion]
              /\ strays' = Strayed(u.stray)
    /\ mres' = [op |-> "move=", ok |-> TRUE, w |-> w, pre_region |-> maps[w].region]
    /\ UNCHANGED <<vmLocked, hugeAvail, mfd, mreq, regions, released>>

\* ~mmap(): unmap(), and the object is gone.
OwnDestroy(w) ==
    /\ maps[w].alive
    /\ \E u \in {mmap_unmap(vm, maps[w].region)} :
         /\ vm' = u.vm
         /\ maps' = [maps EXCEPT ![w] = NoMap]
         /\ strays' = Strayed(u.stray)
         /\ mres' = [op |-> "~mmap", ok |-> TRUE, w |-> w, pre_region |-> maps[w].region]
    /\ UNCHANGED <<vmLocked, hugeAvail, mfd, mreq, regions, released>>

(***************************************************************************)
(* The three make_system_error tables, applied to every errno.             *)
(***************************************************************************)
Errnos == 1..MaxErrno

\* The errno values each table names in a case label.
FileTable ==
    {EINVAL, ENOMEM, EACCES, EPERM, ENOENT, EEXIST, EISDIR, ENOTDIR, EMFILE, ENFILE,
     EFBIG, ENOSPC, ESPIPE, EROFS, EPIPE, EAGAIN, EINTR, ENOSYS}
MmapTable ==
    {EINVAL, ENOMEM, EACCES, EPERM, ENOENT, EBUSY, ENODEV, EADDRINUSE, EFAULT, ENOSYS}
ProcTable ==
    {EACCES, ENOENT, ENOMEM, EAGAIN, EINTR, EPIPE, ECHILD, EINVAL, E2BIG, ELOOP, ENFILE,
     EMFILE}

Translated(errno_val, error, table) ==
    [op |-> "make_system_error", errno |-> errno_val, error |-> error,
     listed |-> errno_val \in table]

\* platform::file::linux_impl::detail::make_system_error on an errno.
TranslateFile ==
    \E e \in Errnos :
      /\ fres' = Translated(e, file_make_system_error(e), FileTable)
      /\ mres' = NoCall /\ pres' = NoCall
      /\ UNCHANGED <<vm, vmLocked, hugeAvail, mfd, mreq, regions, released,
                     pfds, nonblock, pipes, child, sp, handle, ph, closeCalls, io,
                     files, fdata, fh, wrappers, badClose, restVars>>

\* platform::mmap::linux_impl::detail::make_system_error on an errno.
TranslateMmap ==
    \E e \in Errnos :
      /\ mres' = Translated(e, mmap_make_system_error(e), MmapTable)
      /\ fres' = NoCall /\ pres' = NoCall
      /\ UNCHANGED <<vm, vmLocked, hugeAvail, mfd, mreq, regions, released,
                     pfds, nonblock, pipes, child, sp, handle, ph, closeCalls, io,
                     files, fdata, fh, wrappers, badClose, restVars>>

\* platform::process::linux_impl::detail::make_system_error on an errno.
TranslateProc ==
    \E e \in Errnos :
      /\ pres' = Translated(e, proc_make_system_error(e), ProcTable)
      /\ fres' = NoCall /\ mres' = NoCall
      /\ UNCHANGED <<vm, vmLocked, hugeAvail, mfd, mreq, regions, released,
                     pfds, nonblock, pipes, child, sp, handle, ph, closeCalls, io,
                     files, fdata, fh, wrappers, badClose, restVars>>

(***************************************************************************)
(* Specifications.                                                         *)
(***************************************************************************)
InitMapOnly ==
    /\ InitMap
    /\ InitProc
    /\ IdleFile
    /\ IdleRest
    /\ \A s \in Streams : pfds[s].kind = "std"

MapStep == MapMemory /\ UNCHANGED <<procVars, fileVars, restVars>>
UnmapStep == UnmapMemory(regions, FALSE) /\ UNCHANGED <<procVars, fileVars, restVars>>

NextMap == MapStep \/ UnmapStep

\* The memory mapping manager.
SpecMap == InitMapOnly /\ [][NextMap]_vars

\* Requests of the callers that go on to use the region.
RegionRequests ==
    {r \in MemoryRequests :
        /\ r.length > 0 /\ r.offset = 0
        /\ r.placement = "any_address" /\ r.page_pref = "system_default"
        /\ r.populate = "none" /\ r.locking = "no_lock"
        /\ r.pattern = "normal_access"}

InitRegion ==
    /\ InitMapOnly
    /\ mreq \in RegionRequests
    /\ ~hugeAvail

\* Region values a caller can pass: the ones it holds, the one it unmapped last,
\* a default-constructed one, and a held one with the descriptor field cleared.
HeldRegions ==
    regions \cup released \cup {ZeroRegion}
    \cup {[r EXCEPT !.file_descriptor = -1] : r \in regions}

RegionMap == MapMemory /\ UNCHANGED <<procVars, fileVars, restVars>>
RegionUnmap == UnmapMemory(regions \cup released \cup {ZeroRegion}, TRUE)
               /\ UNCHANGED <<procVars, fileVars, restVars>>
RegionSync == SyncMemory(HeldRegions) /\ UNCHANGED <<procVars, fileVars, restVars>>
RegionPrefetch == PrefetchMemory /\ UNCHANGED <<procVars, fileVars, restVars>>

NextRegion == RegionMap \/ RegionUnmap \/ RegionSync \/ RegionPrefetch

\* The operations over an existing region: unmap, sync, prefetch.
SpecRegion == InitRegion /\ [][NextRegion]_vars

PinRequests ==
    {r \in MemoryRequests :
        /\ r.length \in {PageSize, PageSize + 1} /\ r.offset = 0
        /\ r.placement = "any_address" /\ r.page_pref = "system_default"
        /\ r.populate = "none" /\ r.pattern = "normal_access"}

InitPin ==
    /\ InitMapOnly
    /\ mreq \in PinRequests
    /\ ~hugeAvail

PinMap == MapMemory /\ UNCHANGED <<procVars, fileVars, restVars>>
PinLock == LockMemory /\ UNCHANGED <<procVars, fileVars, restVars>>
PinUnlock == UnlockMemory /\ UNCHANGED <<procVars, fileVars, restVars>>
PinUnmap == UnmapMemory(regions, FALSE) /\ UNCHANGED <<procVars, fileVars, restVars>>

NextPin == PinMap \/ PinLock \/ PinUnlock \/ PinUnmap

\* Locking and unlocking the pages of a mapped region.
SpecPin == InitPin /\ [][NextPin]_vars

InitSpawn == InitProc /\ IdleMap /\ IdleFile /\ IdleRest

SpawnAny == SpawnProcess(SpawnRequests, PtrSets) /\ UNCHANGED <<mmapVars, fileVars, restVars>>
ChildBranchAny == ChildBranch(AllFailures) /\ UNCHANGED <<mmapVars, fileVars, restVars>>

NextSpawn == SpawnAny \/ ChildBranchAny

\* spawn_process alone, over every request, descriptor numbering and failure.
SpecSpawn == InitSpawn /\ [][NextSpawn]_vars

LifeRequests ==
    [executable : {"/bin/cat"},
     working_dir : {"NULL"},
     env : {"NULL"},
     flags : {0},
     mode : {[s \in Streams |-> IF s = 2 THEN "inherit" ELSE "pipe"]}]

LifeFailures == [dup2 : {{}}, open : {{}}, chdir : {FALSE}, exec : BOOLEAN]

Spawn == SpawnProcess(LifeRequests, {Streams}) /\ UNCHANGED <<mmapVars, fileVars, restVars>>
ChildRuns == ChildBranch(LifeFailures) /\ UNCHANGED <<mmapVars, fileVars, restVars>>
Cat == CatStep /\ UNCHANGED <<mmapVars, fileVars, restVars>>
Wait == WaitProcess /\ UNCHANGED <<mmapVars, fileVars, restVars>>
Kill == KillProcess /\ UNCHANGED <<mmapVars, fileVars, restVars>>
Read == ReadPipe /\ UNCHANGED <<mmapVars, fileVars, restVars>>
Write == WritePipe /\ UNCHANGED <<mmapVars, fileVars, restVars>>
Close == ClosePipe /\ UNCHANGED <<mmapVars, fileVars, restVars>>

Next ==
    \/ Spawn \/ ChildRuns \/ Cat
    \/ Wait \/ Kill \/ Read \/ Write \/ Close

\* The caller starts with its standard descriptors open, or with stdin closed.
Init == InitProc /\ IdleMap /\ IdleFile /\ IdleRest /\ IsOpen(pfds, 1) /\ IsOpen(pfds, 2)

\* The process manager: one spawned child, its pipes, wait and kill.
Spec == Init /\ [][Next]_vars

\* The file exists, empty or with some bytes, and no descriptor is open on it.
InitFile ==
    /\ IdleMap
    /\ IdleProc
    /\ IdleRest
    /\ files = [fd \in FileFds |-> ClosedFile]
    /\ fdata \in {<< >>, <<1, 2>>}
    /\ fh = NoFileHandle
    /\ wrappers = [w \in WrapperIds |-> NoWrapper]
    /\ badClose = FALSE
    /\ fres = NoCall

FileOpen == OpenFile /\ UNCHANGED <<mmapVars, procVars, restVars>>
FileRead == ReadFile /\ UNCHANGED <<mmapVars, procVars, restVars>>
FileWrite == WriteFile /\ UNCHANGED <<mmapVars, procVars, restVars>>
FileSeek == SeekFile /\ UNCHANGED <<mmapVars, procVars, restVars>>
FileClose == CloseFile /\ UNCHANGED <<mmapVars, procVars, restVars>>

NextFile == FileOpen \/ FileRead \/ FileWrite \/ FileSeek \/ FileClose

\* The file manager over one caller-held handle.
SpecFile == InitFile /\ [][NextFile]_vars

\* The caller holds an open handle on the file, opened with or without append.
InitTransfer ==
    /\ IdleMap
    /\ IdleProc
    /\ IdleRest
    /\ \E flags \in {{"O_RDWR"}, {"O_RDWR", "O_APPEND"}} :
         files = [fd \in FileFds |-> IF fd = MinOf(FileFds) THEN OpenedFile(flags)
                                     ELSE ClosedFile]
    /\ fdata = <<1, 2>>
    /\ fh = [fd |-> MinOf(FileFds)]
    /\ wrappers = [w \in WrapperIds |-> NoWrapper]
    /\ badClose = FALSE
    /\ fres = NoCall

TransferSplice == SpliceFiles /\ UNCHANGED <<mmapVars, procVars, restVars>>
TransferSend == SendFile /\ UNCHANGED <<mmapVars, procVars, restVars>>
TransferSeek == SeekFile /\ UNCHANGED <<mmapVars, procVars, restVars>>
TransferClose == CloseFile /\ UNCHANGED <<mmapVars, procVars, restVars>>

NextTransfer == TransferSplice \/ TransferSend \/ TransferSeek \/ TransferClose

\* splice and sendfile between the caller's file handle and a pipe or socket.
SpecTransfer == InitTransfer /\ [][NextTransfer]_vars

InitThreads ==
    /\ IdleProc /\ IdleMap /\ IdleFile /\ IdleLock /\ IdleOwn
    /\ calls \in [Threads -> {NewCall(s) : s \in {0, 1}}]

Pipe1 == ThreadPipe(1) /\ UNCHANGED <<mmapVars, fileVars, lockVars, ownVars>>
Pipe2 == ThreadPipe(2) /\ UNCHANGED <<mmapVars, fileVars, lockVars, ownVars>>
Cloexec1 == ThreadCloexec(1) /\ UNCHANGED <<mmapVars, fileVars, lockVars, ownVars>>
Cloexec2 == ThreadCloexec(2) /\ UNCHANGED <<mmapVars, fileVars, lockVars, ownVars>>
Fork1 == ThreadFork(1) /\ UNCHANGED <<mmapVars, fileVars, lockVars, ownVars>>
Fork2 == ThreadFork(2) /\ UNCHANGED <<mmapVars, fileVars, lockVars, ownVars>>
Parent1 == ThreadParent(1) /\ UNCHANGED <<mmapVars, fileVars, lockVars, ownVars>>
Parent2 == ThreadParent(2) /\ UNCHANGED <<mmapVars, fileVars, lockVars, ownVars>>
Child1 == ThreadChild(1) /\ UNCHANGED <<mmapVars, fileVars, lockVars, ownVars>>
Child2 == ThreadChild(2) /\ UNCHANGED <<mmapVars, fileVars, lockVars, ownVars>>

NextThreads ==
    \/ Pipe1 \/ Cloexec1 \/ Fork1 \/ Parent1 \/ Child1
    \/ Pipe2 \/ Cloexec2 \/ Fork2 \/ Parent2 \/ Child2

\* Two threads of one process, each spawning a child with one pipe.
SpecThreads == InitThreads /\ [][NextThreads]_vars

InitOwn ==
    /\ IdleProc /\ IdleFile /\ IdleLock /\ IdleCalls /\ IdleOwn
    /\ vm = {} /\ vmLocked = {} /\ hugeAvail = FALSE /\ mfd = -1
    /\ mreq = DefaultRequest
    /\ regions = {} /\ released = {} /\ mres = NoCall

MapOwnerDefault ==
    \E w \in WrapperIds : OwnDefault(w) /\ UNCHANGED <<procVars, fileVars, lockVars, calls>>
MapOwnerConstruct ==
    \E w \in WrapperIds : OwnConstruct(w) /\ UNCHANGED <<procVars, fileVars, lockVars, calls>>
MapOwnerMap ==
    \E w \in WrapperIds : OwnMap(w) /\ UNCHANGED <<procVars, fileVars, lockVars, calls>>
MapOwnerUnmap ==
    \E w \in WrapperIds : OwnUnmap(w) /\ UNCHANGED <<procVars, fileVars, lockVars, calls>>
MapOwnerMoveConstruct ==
    \E w \in WrapperIds, other \in WrapperIds :
       OwnMoveConstruct(w, other) /\ UNCHANGED <<procVars, fileVars, lockVars, calls>>
MapOwnerMoveAssign ==
    \E w \in WrapperIds, other \in WrapperIds :
       OwnMoveAssign(w, other) /\ UNCHANGED <<procVars, fileVars, lockVars, calls>>
MapOwnerDestroy ==
    \E w \in WrapperIds : OwnDestroy(w) /\ UNCHANGED <<procVars, fileVars, lockVars, calls>>

NextOwn ==
    \/ MapOwnerDefault \/ MapOwnerConstruct \/ MapOwnerMap \/ MapOwnerUnmap
    \/ MapOwnerMoveConstruct \/ MapOwnerMoveAssign \/ MapOwnerDestroy

\* mmap wrapper objects over one address space.
SpecOwn == InitOwn /\ [][NextOwn]_vars

InitFlags ==
    /\ IdleProc /\ IdleFile /\ IdleRest
    /\ vm = {} /\ vmLocked = {} /\ hugeAvail = FALSE /\ mfd = -1
    /\ mreq \in FlagRequests
    /\ regions = {} /\ released = {} /\ mres = NoCall

NextFlags == ConvertFlags /\ UNCHANGED <<procVars, fileVars, restVars>>

\* The flag conversion of the mapping manager over every combination of the axes.
SpecFlags == InitFlags /\ [][NextFlags]_vars

InitErrno == IdleMap /\ IdleProc /\ IdleFile /\ IdleRest

NextErrno == TranslateFile \/ TranslateMmap \/ TranslateProc

\* The errno translation of the three managers over every errno value.
SpecErrno == InitErrno /\ [][NextErrno]_vars

InitWrapper == IdleMap /\ IdleProc /\ IdleFile /\ IdleRest

OwnerOpen == WrapperOpen /\ UNCHANGED <<mmapVars, procVars, restVars>>
OwnerDefault == WrapperDefault /\ UNCHANGED <<mmapVars, procVars, restVars>>
OwnerMoveConstruct == WrapperMoveConstruct /\ UNCHANGED <<mmapVars, procVars, restVars>>
OwnerMoveAssign == WrapperMoveAssign /\ UNCHANGED <<mmapVars, procVars, restVars>>
OwnerClose == WrapperClose /\ UNCHANGED <<mmapVars, procVars, restVars>>
OwnerDestroy == WrapperDestroy /\ UNCHANGED <<mmapVars, procVars, restVars>>

NextWrapper ==
    \/ OwnerOpen \/ OwnerDefault \/ OwnerMoveConstruct
    \/ OwnerMoveAssign \/ OwnerClose \/ OwnerDestroy

\* The owning wrappers: construction, moves, close and destruction in any order.
SpecWrapper == InitWrapper /\ [][NextWrapper]_vars

\* The caller holds an open handle on the file and no lock; the other process
\* holds its lock, if any, throughout.
InitLock ==
    /\ IdleMap
    /\ IdleProc
    /\ ownLocks = [b \in LockBytes |-> "none"]
    /\ otherLock \in OtherLocks
    /\ IdleCalls /\ IdleOwn
    /\ files = [fd \in FileFds |-> IF fd = MinOf(FileFds) THEN OpenedFile({"O_RDWR"})
                                   ELSE ClosedFile]
    /\ fdata = << >>
    /\ fh = [fd |-> MinOf(FileFds)]
    /\ wrappers = [w \in WrapperIds |-> NoWrapper]
    /\ badClose = FALSE
    /\ fres = NoCall

LockSet == LockFile /\ UNCHANGED <<mmapVars, procVars, calls, ownVars>>
LockTest == TestLock /\ UNCHANGED <<mmapVars, procVars, calls, ownVars>>

NextLock == LockSet \/ LockTest

\* Record locks: the caller and one other process on the same file.
SpecLock == InitLock /\ [][NextLock]_vars

(***************************************************************************)
(* Claims.                                                                 *)
(***************************************************************************)
\* C1: whenever map_memory returns an error, no page mapped by that call is still
\* mapped, no page is mapped that was not mapped before the call, and no region is
\* returned; that covers the mmap failure and the lock failure after a good mmap.
C1_MapErrorLeavesNoMapping ==
    (mres.op = "map_memory" /\ ~mres.ok) =>
        /\ mres.created \cap vm = {}
        /\ vm \subseteq mres.pre_vm
        /\ mres.region = ZeroRegion
        /\ mres.region \notin regions

\* A lock failure after a successful mmap was unwound.
C1_Witness ==
    /\ mres.op = "map_memory" /\ ~mres.ok /\ mres.lock_failed
    /\ mres.created # {}
    /\ mres.calls = <<"mmap", "mlock", "munmap">>

\* C2: whenever spawn_process returns an error, every pipe descriptor the call
\* created is closed again (the descriptor table is the one before the call), no
\* child exists and the caller's three pipe handles are unchanged.
C2_SpawnErrorCleansUp ==
    (pres.op = "spawn" /\ ~pres.ok) =>
        /\ pfds = pres.pre_pfds
        /\ \A fd \in pres.created : ~IsOpen(pfds, fd)
        /\ child.state = "none"
        /\ ph = pres.pre_ph

\* The third pipe (or fork) failed after two pipes had been created.
C2_Witness ==
    /\ pres.op = "spawn" /\ ~pres.ok
    /\ Cardinality(pres.created) >= 4

\* C3: in the forked child every failed dup2, chdir or exec is the child's last
\* call and the child ends with _exit(127); the branch ends in exec or _exit only.
C3_ChildFailureExits127 ==
    (child.state # "none" /\ child.branch_end # "none") =>
        /\ child.branch_end \in {"exec", "_exit"}
        /\ \A i \in 1..Len(child.trace) :
             (child.trace[i].call \in {"dup2", "chdir", "exec"} /\ ~child.trace[i].ok)
               => /\ i = Len(child.trace)
                  /\ child.branch_end = "_exit"
                  /\ child.term = [kind |-> "exit", code |-> 127, core |-> FALSE]

\* C4: when the child calls exec, each standard descriptor is what its mode asks
\* for (child end of the pipe, null device, or the parent's descriptor untouched)
\* and no other descriptor of a pipe of this spawn stays open across exec.
C4_ExecDescriptors ==
    (child.state # "none" /\ child.branch_end = "exec") =>
        /\ \A s \in Streams :
             CASE sp.request.mode[s] = "pipe" ->
                    child.execFds[s] = PipeDesc(s, ChildEnd(s))
               [] sp.request.mode[s] = "none" -> child.execFds[s].kind = "null"
               [] OTHER -> child.execFds[s] = sp.pre_pfds[s]
        /\ \A fd \in Fds :
             (child.execFds[fd].kind = "pipe" /\ ~child.execFds[fd].cloexec)
               => /\ fd \in Streams
                  /\ sp.request.mode[fd] = "pipe"
                  /\ child.execFds[fd] = PipeDesc(fd, ChildEnd(fd))

\* C5: after a successful spawn_process the parent has, for each stream of mode
\* pipe, exactly one descriptor of that pipe, its own end (write end for stdin,
\* read end for stdout and stderr), non-blocking, and stored in the output handle
\* the caller gave; for modes none and inherit the handle stays invalid.
C5_ParentPipeEnds ==
    (pres.op = "spawn" /\ pres.ok) =>
        \A s \in Streams :
          LET mine == {fd \in Fds : pfds[fd].kind = "pipe" /\ pfds[fd].id = s}
          IN IF pres.request.mode[s] = "pipe"
             THEN /\ Cardinality(mine) = 1
                  /\ \A fd \in mine :
                       /\ pfds[fd].end = ParentEnd(s)
                       /\ <<s, pfds[fd].end>> \in nonblock
                       /\ (s \in pres.ptrs => ph[s] = fd)
             ELSE mine = {} /\ ph[s] = -1

\* A spawn with stdin and stdout pipes succeeded and handed out both handles.
C5_Witness ==
    /\ pres.op = "spawn" /\ pres.ok
    /\ pres.request.mode[0] = "pipe" /\ pres.request.mode[1] = "pipe"
    /\ ph[0] >= 0 /\ ph[1] >= 0 /\ ph[0] # ph[1]

C7_CatRoundTrip ==
    (/\ sp.called /\ child.state # "none" /\ child.branch_end = "exec"
     /\ sp.request.executable = "/bin/cat"
     /\ sp.request.mode[0] = "pipe" /\ sp.request.mode[1] = "pipe"
     /\ io.written = MsgLen /\ closeCalls[0] = 1 /\ ph[0] = -1
     /\ ~io.signalled /\ io.eof) =>
        /\ io.received = Msg
        /\ handle.state = 1 => handle.exit_code = 0

\* C8: a wait_process call that returns an error leaves the handle as it was and
\* reaps nothing; with no_hang on a valid handle whose child is still running the
\* call returns would_block.
C8_WaitErrorLeavesHandle ==
    (pres.op = "wait") =>
        /\ ~pres.ok => (handle = pres.pre_handle)
        /\ (~pres.ok /\ child.state = "reaped") => (pres.pre_child = "reaped")
        /\ (pres.no_hang /\ is_valid_process(pres.pre_handle)
            /\ pres.pre_child \in {"forked", "running"})
             => (~pres.ok /\ pres.error.code = "would_block")

\* A no_hang wait found the child still running.
C8_Witness ==
    /\ pres.op = "wait" /\ pres.no_hang /\ ~pres.ok
    /\ pres.error.code = "would_block"
    /\ child.state = "running" /\ handle.state = 0 /\ handle.pid = ChildPid

\* C9: a successful wait_process returns the child's exit status (0..255) if it
\* exited and 128 plus the signal number if a signal killed it, stores that value in
\* handle.exit_code and sets handle.state to 1.
C9_WaitDecodesStatus ==
    (pres.op = "wait" /\ pres.ok) =>
        /\ pres.value = (IF child.term.kind = "exit" THEN child.term.code % 256
                         ELSE 128 + child.term.code)
        /\ handle.exit_code = pres.value
        /\ handle.state = 1
        /\ child.state = "reaped"

\* A successful wait for a child that SIGQUIT killed, core dumped.
C9_Witness ==
    /\ pres.op = "wait" /\ pres.ok
    /\ child.term = Signalled(SIGQUIT, TRUE)
    /\ pres.value = 128 + SIGQUIT /\ handle.state = 1

\* C10: close_pipe on a valid handle closes its descriptor with one close call and
\* leaves the handle invalid; on an invalid handle it succeeds without a system
\* call, so each handle's descriptor is closed at most once.
C10_ClosePipeOnce ==
    /\ \A s \in Streams : closeCalls[s] <= 1
    /\ \A s \in Streams : closeCalls[s] = 1 => ph[s] = -1
    /\ (pres.op = "close_pipe") =>
         /\ pres.ok
         /\ ph[pres.stream] = -1
         /\ IF pres.pre_fd >= 0
            THEN /\ pres.syscalls = 1
                 /\ ~IsOpen(pfds, pres.pre_fd)
                 /\ \A fd \in Fds \ {pres.pre_fd} : pfds[fd] = pres.pre_pfds[fd]
            ELSE pres.syscalls = 0 /\ pfds = pres.pre_pfds

\* close_pipe was called again on a handle it had already closed.
C10_Witness ==
    /\ pres.op = "close_pipe" /\ pres.ok /\ pres.pre_fd < 0 /\ pres.syscalls = 0
    /\ closeCalls[pres.stream] = 1

\* C11: once mmap has succeeded, map_memory returns an error exactly when a lock was
\* requested and the lock attempt failed; whether the access-pattern advice or the
\* population hint failed changes neither the result nor the region returned.
C11_OnlyLockIsFatal ==
    (mres.op = "map_memory" /\ mres.created # {}) =>
        /\ ~mres.ok <=> (mreq.locking # "no_lock" /\ mres.lock_failed)
        /\ mres.ok =>
             /\ mres.region \in regions
             /\ PagesOf(mres.region.address, mres.region.length) = mres.created
             /\ mres.region.length = mreq.length
             /\ mres.region.file_offset = mreq.offset
             /\ mres.region.actual_access = mreq.access
             /\ mres.region.is_locked = (mreq.locking # "no_lock")
             /\ mres.region.supports_sync = (mreq.backing = "file_backed")

\* A mapping with a lock succeeded although an advice call failed.
C11_Witness ==
    /\ mres.op = "map_memory" /\ mres.ok /\ mres.advice_failed
    /\ mreq.locking # "no_lock" /\ mres.region.is_locked
    /\ "madvise" \in {mres.calls[i] : i \in DOMAIN mres.calls}

\* C12: map_memory with length 0 or with an offset that is not a multiple of the
\* page size returns invalid_argument and issues no syscall, whatever the other
\* request fields are, for anonymous and file-backed requests alike.
C12_RejectedBeforeSyscall ==
    (mres.op = "map_memory" /\ (mreq.length = 0 \/ mreq.offset % PageSize # 0)) =>
        /\ ~mres.ok
        /\ mres.error = memory_error("invalid_argument")
        /\ mres.calls = << >>
        /\ mres.created = {}
        /\ vm = mres.pre_vm

\* A file-backed request of positive length with a misaligned offset was rejected.
C12_Witness ==
    /\ mres.op = "map_memory" /\ ~mres.ok /\ mres.calls = << >>
    /\ mreq.backing = "file_backed" /\ mfd >= 0
    /\ mreq.length > 0 /\ mreq.offset % PageSize # 0

\* C13: every region a successful map_memory returns has a length that is a
\* multiple of its actual_page_size and an address aligned to it.
C13_RegionPageAligned ==
    (mres.op = "map_memory" /\ mres.ok) =>
        /\ mres.region.actual_page_size > 0
        /\ mres.region.length % mres.region.actual_page_size = 0
        /\ mres.region.address % mres.region.actual_page_size = 0

\* C14: a prefer_large request never fails because the kernel has no large pages;
\* it then gets normal pages and actual_pages = system_default, and actual_pages
\* names large pages only when large pages back the mapping.
C14_LargePageFallback ==
    (mres.op = "map_memory") =>
        /\ mreq.page_pref = "prefer_large" => ~mres.no_huge
        /\ (mres.ok /\ mreq.page_pref = "prefer_large" /\ ~hugeAvail)
             => mres.region.actual_pages = "system_default"
        /\ (mres.ok /\ mres.region.actual_pages \in {"prefer_large", "require_large"})
             => (hugeAvail /\ MAP_HUGETLB \subseteq to_map_flags(mreq))

\* C15: unmap_memory never fails, and applied to a default region or to a region
\* that was already unmapped it issues no munmap and changes no mapping.
C15_UnmapNoOp ==
    (mres.op = "unmap_memory") =>
        /\ mres.ok
        /\ (mres.region = ZeroRegion \/ mres.stale)
             => (mres.calls = << >> /\ vm = mres.pre_vm)

\* C16: sync_memory on a region with file_descriptor < 0 or supports_sync false
\* returns no_such_device and issues no msync; on a file-backed region it issues
\* one msync over [address, address + length) and returns success or the
\* translation of the errno.
C16_SyncOnlyFileBacked ==
    (mres.op = "sync_memory") =>
        IF mres.region.file_descriptor < 0 \/ ~mres.region.supports_sync
        THEN /\ ~mres.ok
             /\ mres.error = memory_error("no_such_device")
             /\ mres.calls = << >>
        ELSE /\ mres.calls = <<"msync">>
             /\ mres.range = <<mres.region.address, mres.region.length>>
             /\ mres.ok <=> mres.errno = 0
             /\ ~mres.ok => mres.error = mmap_make_system_error(mres.errno)
             /\ vm = mres.pre_vm

\* A file-backed region was synced with one msync.
C16_Witness ==
    /\ mres.op = "sync_memory" /\ mres.ok
    /\ mres.region \in regions /\ mres.region.supports_sync
    /\ mres.region.file_descriptor >= 0
    /\ mres.calls = <<"msync">>

\* C17: prefetch_memory returns invalid_argument and issues no madvise whenever
\* offset + length, as a mathematical sum, exceeds region.length; with length 0
\* (to the end of the region) it passes the range check exactly when
\* offset < region.length.
C17_PrefetchRange ==
    (mres.op = "prefetch_memory") =>
        /\ (mres.offset + mres.length > mres.region.length)
             => /\ ~mres.ok
                /\ mres.error = memory_error("invalid_argument")
                /\ mres.calls = << >>
        /\ mres.length = 0
             => ((mres.calls = <<"madvise">>) <=> (mres.offset < mres.region.length))

\* C18: under any sequence of move-construction, move-assignment, close() and
\* destruction of file wrappers, each open descriptor has exactly one owning wrapper,
\* a moved-from wrapper is not open, and close(2) is never issued on a descriptor
\* that is not open (so none is leaked and none is closed twice).
C18_SingleOwnerClosedOnce ==
    /\ \A fd \in FileFds :
         files[fd].open <=> Cardinality({w \in WrapperIds : is_open(w) /\ wrappers[w].fd = fd}) = 1
    /\ \A w \in WrapperIds : wrappers[w].alive /\ wrappers[w].moved => ~is_open(w)
    /\ ~badClose

C18_Witness ==
    /\ fres.op = "move_assign"
    /\ fres.closed = 1
    /\ fres.target # fres.source
    /\ is_open(fres.target)
    /\ wrappers[fres.source].moved

\* C19 as stated: a successful read_file or write_file with the sentinel offset acts
\* at the descriptor's position and advances it by the bytes transferred; with any
\* other offset it acts at that offset and leaves the position unchanged; new_offset
\* is the descriptor's position after the call.
OffsetSemantics ==
    \E at \in {IF fres.offset = CurrentPosition THEN fres.pre_pos ELSE fres.offset} :
      /\ fres.op = "read_file" =>
           (/\ fres.bytes = BytesAt(fres.pre_data, at, fres.length)
            /\ fdata = fres.pre_data)
      /\ fres.op = "write_file" =>
           (fdata = IF fres.bytes = << >> THEN fres.pre_data
                    ELSE PutAt(fres.pre_data, at, fres.bytes))
      /\ fres.bytes_transferred = Len(fres.bytes)
      /\ files[fh.fd].pos = (IF fres.offset = CurrentPosition
                             THEN fres.pre_pos + fres.bytes_transferred
                             ELSE fres.pre_pos)
      /\ fres.new_offset = files[fh.fd].pos

C20_EmptyPathInvalid ==
    (fres.op = "open_file" /\ fres.path = "") =>
      (/\ ~fres.ok
       /\ fres.error.code = "invalid_argument"
       /\ files = fres.pre_files)

\* C21: test_lock always issues F_GETLK whatever lock.command says, changes no lock,
\* and a successful call returns kind unlock exactly when the other process holds no
\* conflicting lock on the range (the caller's own locks do not count); otherwise it
\* returns the conflicting lock's kind, start, length and owner pid.
C21_TestLockOnlyTests ==
    fres.op = "test_lock" =>
      (/\ fres.cmd = "F_GETLK"
       /\ ownLocks = fres.pre_own
       /\ fres.ok =>
            (/\ fres.result.type = "unlock" <=>
                  ~Conflicts(otherLock, to_lock_type(fres.lock.type),
                             fres.lock.start, fres.lock.length)
             /\ fres.result.type # "unlock" =>
                  (/\ fres.result.type = otherLock.type
                   /\ fres.result.start = otherLock.start
                   /\ fres.result.length = otherLock.length
                   /\ fres.result.pid = otherLock.pid)))

C21_Witness ==
    /\ fres.op = "test_lock"
    /\ fres.ok
    /\ fres.lock.command = "set_wait"
    /\ fres.result.type = "unlock"
    /\ \E b \in LockRange(fres.lock.start, fres.lock.length) : ownLocks[b] = "exclusive"

C21_WitnessConflict ==
    /\ fres.op = "test_lock"
    /\ fres.ok
    /\ fres.result.type = "exclusive"
    /\ fres.result.pid = OtherPid

\* C22: splice_files and sendfile_op, given a non-null offset pointer, on success
\* advance the pointed-to offset by exactly the bytes transferred and leave the
\* descriptor's own position alone; on error the caller's offset values are
\* unchanged; with a null pointer the descriptor's position is used and advanced.
C22_OffsetPointers ==
    fres.op \in {"splice_files", "sendfile_op"} =>
      (/\ ~fres.ok => (fres.ptr_after = fres.ptr /\ fres.other_after = fres.other)
       /\ (fres.ok /\ ~fres.ptr.null) =>
            (/\ fres.ptr_after.val = fres.ptr.val + fres.bytes_transferred
             /\ files[fh.fd].pos = fres.pre_pos)
       /\ (fres.ok /\ fres.ptr.null) =>
            (/\ fres.ptr_after = fres.ptr
             /\ files[fh.fd].pos = fres.pre_pos + fres.bytes_transferred))

C22_Witness ==
    /\ fres.op = "splice_files"
    /\ fres.ok
    /\ ~fres.ptr.null
    /\ fres.bytes_transferred > 0
    /\ fres.pre_pos # fres.ptr.val

\* C23: in each of the three managers make_system_error maps EINVAL to
\* invalid_argument, ENOMEM to no_memory, EACCES and EPERM to permission_denied,
\* ENOENT to the manager's not-found code and every errno without a table entry to
\* io_error; the error has domain system and platform_errno equal to the errno.
ErrnoBuckets(rec, not_found) ==
    rec.op = "make_system_error" =>
      (/\ rec.errno = EINVAL => rec.error.code = "invalid_argument"
       /\ rec.errno = ENOMEM => rec.error.code = "no_memory"
       /\ rec.errno \in {EACCES, EPERM} => rec.error.code = "permission_denied"
       /\ rec.errno = ENOENT => rec.error.code = not_found
       /\ ~rec.listed => rec.error.code = "io_error"
       /\ rec.error.domain = "system"
       /\ rec.error.platform_errno = rec.errno)

C23_ErrnoBuckets ==
    /\ ErrnoBuckets(fres, "file_not_found")
    /\ ErrnoBuckets(mres, "file_not_found")
    /\ ErrnoBuckets(pres, "not_found")

\* C24: on every error path of spawn_process no other syscall is issued between the
\* failing syscall and the read of errno that builds the returned error.
C24_ErrnoReadFirst ==
    (pres.op = "spawn" /\ ~pres.ok) => pres.errno_gap = << >>

\* C25: for a request with enable_native = false, exactly one of the shared/private
\* bits is set, the anonymous bit is set iff backing = anonymous, a fixed-placement
\* bit is set iff placement is fixed_address or fixed_no_replace, and the flag word is
\* the union of per-axis contributions that depend on their axis alone.
FlagsPerAxis ==
    LET r == mres.request
        flags == mres.flags
    IN /\ (MAP_SHARED \subseteq flags) # (MAP_PRIVATE \subseteq flags)
       /\ MAP_ANONYMOUS \subseteq flags <=> r.backing = "anonymous"
       /\ (MAP_FIXED \subseteq flags \/ MAP_FIXED_NOREPLACE \subseteq flags)
             <=> r.placement \in {"fixed_address", "fixed_no_replace"}
       /\ flags = UNION {Contribution(r, a) : a \in FlagAxes}

\* C25 as stated: besides, two different axes never contribute the same bit, so
\* changing one axis never changes the bits that stand for another axis.
C25_AxesIndependent ==
    (mres.op = "to_map_flags" /\ ~mres.request.enable_native) =>
      (/\ FlagsPerAxis
       /\ \A a \in FlagAxes : \A b \in FlagAxes \ {a} :
            \A r2 \in Variants(mres.request, a) :
               to_map_flags(r2) \cap AxisBits(b) = mres.flags \cap AxisBits(b))

\* C25, amended: the only bit two axes share is MAP_POPULATE, contributed by
\* populate = prefault and by commit = pre_commit; all other bits of an axis are
\* untouched by a change of another axis.
C25_AxesIndependentButPopulate ==
    (mres.op = "to_map_flags" /\ ~mres.request.enable_native) =>
      (/\ FlagsPerAxis
       /\ \A a \in FlagAxes : \A b \in FlagAxes \ {a} :
            \A r2 \in Variants(mres.request, a) :
               LET shared == IF {a, b} = {"populate", "commit"} THEN MAP_POPULATE ELSE {}
               IN to_map_flags(r2) \cap (AxisBits(b) \ shared)
                    = mres.flags \cap (AxisBits(b) \ shared)
       /\ \A a \in FlagAxes : \A b \in FlagAxes \ {a} :
            AxisBits(a) \cap AxisBits(b)
              = IF {a, b} = {"populate", "commit"} THEN MAP_POPULATE ELSE {})

C25_Witness ==
    /\ mres.op = "to_map_flags"
    /\ ~mres.request.enable_native
    /\ mres.request.commit = "pre_commit"
    /\ mres.request.populate = "none"
    /\ mres.request.placement = "fixed_no_replace"
    /\ mres.request.page_pref = "prefer_large"
    /\ MAP_POPULATE \subseteq mres.flags

\* C26: once wait_process has succeeded on a handle (child reaped, handle marked
\* waited), no later wait, kill or terminate on that handle issues waitpid or kill
\* for the reaped pid.
C26_NoSyscallAfterReap ==
    /\ (pres.op = "wait" /\ pres.pre_handle.state = 1) => pres.syscalls = 0
    /\ (pres.op = "kill" /\ handle.state = 1) => pres.syscalls = 0

\* C27: after a successful spawn_process every pipe descriptor the call left open
\* in the parent is stored in one of the output pipe handles, whatever the modes and
\* whichever output pointers are null.
C27_NoOrphanDescriptor ==
    (pres.op = "spawn" /\ pres.ok) =>
        \A fd \in pres.created : IsOpen(pfds, fd) => \E s \in Streams : ph[s] = fd

\* C28: when two threads call spawn_process concurrently, the child of one call
\* holds at exec time no open descriptor of a pipe the other call created.
C28_NoForeignPipeAtExec ==
    \A th \in Threads :
       calls[th].execd =>
          \A fd \in Fds : ~(calls[th].cfds[fd].kind = "pipe" /\ calls[th].cfds[fd].id # th)

\* The wrapper's region_ is a live mapping no other wrapper holds.
OwnsMapping(w) ==
    /\ PagesOf(maps[w].region.address, maps[w].region.length) # {}
    /\ PagesOf(maps[w].region.address, maps[w].region.length) \subseteq vm
    /\ \A o \in WrapperIds \ {w} :
         maps[o].alive =>
           PagesOf(maps[o].region.address, maps[o].region.length)
             \cap PagesOf(maps[w].region.address, maps[w].region.length) = {}

\* C29: for the mmap wrapper, after any sequence of construction, map(), unmap(),
\* move-construction, move-assignment and destruction, is_mapped() holds iff
\* region().address is non-null iff the wrapper owns one live mapping; every mapping
\* obtained is unmapped exactly once (none is left without an owner, none is
\* unmapped again); a failed map() leaves the wrapper unmapped with its previous
\* mapping released.
C29_WrapperOwnsMapping ==
    /\ \A w \in WrapperIds :
         maps[w].alive =>
           /\ mmap_is_mapped(maps[w].region) <=> maps[w].region.address # 0
           /\ mmap_is_mapped(maps[w].region) <=> OwnsMapping(w)
    /\ vm = UNION {PagesOf(maps[w].region.address, maps[w].region.length) :
                     w \in {x \in WrapperIds : maps[x].alive}}
    /\ strays = 0
    /\ (mres.op = "map" /\ ~mres.ok) =>
         /\ ~mmap_is_mapped(maps[mres.w].region)
         /\ PagesOf(mres.pre_region.address, mres.pre_region.length) \cap vm = {}

\* A mapped wrapper's map() failed while another wrapper holds a mapping.
C29_Witness ==
    /\ mres.op = "map" /\ ~mres.ok
    /\ mmap_is_mapped(mres.pre_region)
    /\ \E o \in WrapperIds \ {mres.w} : maps[o].alive /\ mmap_is_mapped(maps[o].region)

\* C30: after any sequence of map_memory, lock_memory and unlock_memory on a
\* region, the region's is_locked flag is true exactly when its pages are locked.
C30_LockedFlagTracksPages ==
    \A r \in regions :
       r.is_locked <=> PagesOf(r.address, r.length) \subseteq vmLocked

====
